---- MODULE Spec2Model ----
(***************************************************************************)
(* GEO3 hierarchical geospatial compressor (HGC): runHGC, compressTopDown, *)
(* the canonical encoder and Merkle builder, saveResults (persistence and  *)
(* cross-epoch map merge) and the verifier, as state machines over a small *)
(* hexagonal hierarchy.                                                    *)
(*                                                                         *)
(* JavaScript values are tagged records; an object is the sequence of its  *)
(* (key, value) pairs in insertion order; text (canonical encodings, hash  *)
(* inputs, dedup keys, file names) is built as real strings.               *)
(***************************************************************************)
EXTENDS Integers, Sequences, FiniteSets, TLC

VARIABLES hgc, sv, files, dirs, verifyOut, runs, edit, call

vars == <<hgc, sv, files, dirs, verifyOut, runs, edit, call>>

(***************************************************************************)
(* Bounds of the model.                                                    *)
(***************************************************************************)
\* longest sample list handed to runHGC in SpecHGC
MaxSamples == 3
\* number of saveResults calls in one behaviour of Spec
MaxRuns == 2
\* number of saveResults calls before a file is edited in SpecTamper
MaxRunsBeforeEdit == 1
\* most members of an object handed to canonical in SpecCanon
MaxMembers == 2
\* most cells of a data object handed to merkleRootAndIndex in SpecMerkle
MaxCells == 2
\* most child groups handed to chunkStable in SpecChunk
MaxGroups == 3
\* most entries of one registerMultipleNodes call in SpecDid
MaxBatchNodes == 2
\* largest totalToMint of a publishCycle call and amount of a claim in SpecReward
MaxMint == 2

(***************************************************************************)
(* Sequence helpers.                                                       *)
(***************************************************************************)
Range(s) == { s[i] : i \in DOMAIN s }

RECURSIVE SumSeq(_)
SumSeq(s) == IF s = <<>> THEN 0 ELSE Head(s) + SumSeq(Tail(s))

RECURSIVE FlatSeq(_)
\* Array.prototype.flat() on an array of arrays
FlatSeq(ss) == IF ss = <<>> THEN <<>> ELSE Head(ss) \o FlatSeq(Tail(ss))

RECURSIVE JoinWith(_, _)
\* Array.prototype.join(sep) on an array of strings
JoinWith(ss, sep) ==
  IF ss = <<>> THEN ""
  ELSE IF Len(ss) = 1 THEN ss[1]
  ELSE ss[1] \o sep \o JoinWith(Tail(ss), sep)

(***************************************************************************)
(* String order.  Every string the program sorts (object keys, cell ids)   *)
(* is listed here in UTF-16 code-unit order, which is the order of         *)
(* Array.prototype.sort() without a comparator; on the digits and          *)
(* lower-case letters of cell ids localeCompare gives the same order.      *)
(***************************************************************************)
StrOrder ==
  << "1", "12", "2", "80a", "81a0", "81a1", "82a00", "82a01", "82a02", "82a10",
     "abc", "baseRes", "batchIds", "batchRoots", "batchesTotal", "boundary",
     "center", "co2", "compressedFrom", "countLeaves", "countSamples", "data",
     "epoch", "epochStartMs", "errors", "geoBatchId", "geoCellId", "hash",
     "hgcParams", "hysteresisFar", "hysteresisNear", "issuer", "leavesIndex",
     "maxLeavesPerBatch", "maxSamplesPerBatch", "merkleRoot", "meta", "minRes",
     "pm25", "resBase", "resBatch", "samples", "samplesTotal", "schemaVersion",
     "superRoot", "timestamp", "tsMax", "tsMin", "volume", "windowMs" >>

StrRank(s) == CHOOSE i \in DOMAIN StrOrder : StrOrder[i] = s

\* a.localeCompare(b) < 0
StrLess(a, b) == StrRank(a) < StrRank(b)

RECURSIVE InsertByKey(_, _)
\* one step of a stable insertion sort of <<key, element>> pairs: x goes
\* after every pair whose key is not greater than its own
InsertByKey(x, s) ==
  IF s = <<>> THEN <<x>>
  ELSE IF x[1] < Head(s)[1] THEN <<x>> \o s
  ELSE <<Head(s)>> \o InsertByKey(x, Tail(s))

RECURSIVE SortPairs(_)
SortPairs(s) ==
  IF s = <<>> THEN <<>>
  ELSE InsertByKey(s[Len(s)], SortPairs(SubSeq(s, 1, Len(s) - 1)))

\* Array.prototype.sort((a, b) => key(a) - key(b)), stable since ES2019:
\* keys[i] is the integer the comparator orders s[i] by
StableSort(keys, s) ==
  LET sorted == SortPairs([i \in DOMAIN s |-> <<keys[i], s[i]>>])
  IN [i \in DOMAIN sorted |-> sorted[i][2]]

\* [...ids].sort(cellIdComparator) and Object.keys(o).sort()
SortStrings(s) == StableSort([i \in DOMAIN s |-> StrRank(s[i])], s)

(***************************************************************************)
(* JavaScript values.                                                      *)
(***************************************************************************)
Undef  == [t |-> "undefined"]
Null   == [t |-> "null"]
NaN    == [t |-> "NaN"]
\* a number, held in tenths so that 1.1 and 0.9 are values
Dec(q)   == [t |-> "number", q10 |-> q]
Num(n)   == Dec(10 * n)
Str(s)   == [t |-> "string", s |-> s]
Arr(a)   == [t |-> "array", a |-> a]
Obj(kv)  == [t |-> "object", kv |-> kv]

IsNum(v) == v.t = "number"
\* typeof v === 'number'
TypeofNumber(v) == v.t \in {"number", "NaN"}
IntOf(v) == v.q10 \div 10

Keys(o) == [i \in DOMAIN o.kv |-> o.kv[i][1]]
Has(o, k) == \E i \in DOMAIN o.kv : o.kv[i][1] = k
\* o[k]
Get(o, k) ==
  IF Has(o, k) THEN o.kv[CHOOSE i \in DOMAIN o.kv : o.kv[i][1] = k][2]
  ELSE Undef
\* { ...o, k: v } and o[k] = v: an existing key keeps its place
Set(o, k, v) ==
  IF Has(o, k)
  THEN Obj([i \in DOMAIN o.kv |-> IF o.kv[i][1] = k THEN <<k, v>> ELSE o.kv[i]])
  ELSE Obj(Append(o.kv, <<k, v>>))
\* delete o[k]
Delete(o, k) == Obj(SelectSeq(o.kv, LAMBDA p : p[1] # k))

\* Number.prototype.toString for a number held in tenths
NumToString(q) ==
  LET a == IF q < 0 THEN -q ELSE q
      body == IF a % 10 = 0 THEN ToString(a \div 10)
              ELSE ToString(a \div 10) \o "." \o ToString(a % 10)
  IN IF q < 0 THEN "-" \o body ELSE body

\* JSON.stringify of a string without characters to escape
Quote(s) == "\"" \o s \o "\""

\* a template literal's rendering of a primitive: `${v}`
Template(v) ==
  CASE v.t = "string" -> v.s
    [] v.t = "number" -> NumToString(v.q10)
    [] v.t = "NaN" -> "NaN"
    [] v.t = "null" -> "null"
    [] OTHER -> "undefined"

(***************************************************************************)
(* Canonical encoder and hashes (hash-helpers.js).                         *)
(***************************************************************************)
RECURSIVE canonical_InsertionOrder(_)
\* an encoder that writes the members of an object in insertion order
canonical_InsertionOrder(value) ==
  CASE value.t = "null" -> "null"
    [] value.t = "number" -> NumToString(value.q10)
    [] value.t = "NaN" -> "NaN"
    [] value.t = "string" -> Quote(value.s)
    [] value.t = "undefined" -> "undefined"
    [] value.t = "array" ->
         "[" \o JoinWith([i \in DOMAIN value.a |->
                            IF value.a[i].t = "undefined" THEN ""
                            ELSE canonical_InsertionOrder(value.a[i])], ",") \o "]"
    [] OTHER ->
         "{" \o JoinWith([i \in DOMAIN value.kv |->
                            Quote(value.kv[i][1]) \o ":" \o
                            canonical_InsertionOrder(value.kv[i][2])], ",") \o "}"

RECURSIVE canonical(_)
\* canonical(value): 'null', Number(value).toString(), JSON.stringify of the
\* other primitives, arrays in order, objects with their keys sorted.
\* JSON.stringify(undefined) is undefined: a template renders it as the text
\* undefined, and Array.prototype.join renders it as the empty text.
canonical(value) ==
  CASE value.t = "null" -> "null"
    [] value.t = "number" -> NumToString(value.q10)
    [] value.t = "NaN" -> "NaN"
    [] value.t = "string" -> Quote(value.s)
    [] value.t = "undefined" -> "undefined"
    [] value.t = "array" ->
         "[" \o JoinWith([i \in DOMAIN value.a |->
                            IF value.a[i].t = "undefined" THEN ""
                            ELSE canonical(value.a[i])], ",") \o "]"
    [] OTHER ->
         LET ks == SortStrings(Keys(value))
         IN "{" \o JoinWith([i \in DOMAIN ks |->
                               Quote(ks[i]) \o ":" \o canonical(Get(value, ks[i]))],
                            ",") \o "}"

\* '0x' + sha256(text) in hex: the digest is kept as the text it commits to
sha256Hex(bufferOrString) == "0x" \o "sha256(" \o bufferOrString \o ")"

sha256HexCanonical(obj) == sha256Hex(canonical(obj))

\* keccak256(text), as the buffer's hex digits
keccak256(x) == "keccak(" \o x \o ")"

\* merkletreejs with sortPairs: the two children are ordered as byte strings
\* before they are concatenated, so a pair hashes the same in either order.
\* The order of two digests is the one fixed choice below.
HashPair(l, r) ==
  LET first == CHOOSE z \in {l, r} : TRUE
      second == IF first = l THEN r ELSE l
  IN keccak256(first \o second)

\* one layer of the tree: pairs are hashed, an odd last node is promoted
MerkleLayer(nodes) ==
  [i \in 1..((Len(nodes) + 1) \div 2) |->
     IF 2 * i <= Len(nodes) THEN HashPair(nodes[2 * i - 1], nodes[2 * i])
     ELSE nodes[2 * i - 1]]

RECURSIVE MerkleTreeRoot(_)
MerkleTreeRoot(nodes) ==
  IF Len(nodes) = 1 THEN nodes[1] ELSE MerkleTreeRoot(MerkleLayer(nodes))

\* new MerkleTree(leaves, keccak256, { sortPairs: true }).getHexRoot()
getHexRoot(leaves) ==
  IF leaves = <<>> THEN "0x" ELSE "0x" \o MerkleTreeRoot(leaves)

\* leaves that join the cell id and the payload text without a separator
merkleRootAndIndex_NoSeparator(dataObject) ==
  LET cellIds == SortStrings(Keys(dataObject))
      leaves == [i \in DOMAIN cellIds |->
                   keccak256(cellIds[i] \o canonical(Get(dataObject, cellIds[i])))]
  IN [root |-> getHexRoot(leaves),
      leavesIndex |-> Obj([i \in DOMAIN cellIds |-> <<cellIds[i], Num(i - 1)>>])]

\* merkleRootAndIndex(dataObject): leaf = keccak256(cellId ':' canonical(entries))
merkleRootAndIndex(dataObject) ==
  LET cellIds == SortStrings(Keys(dataObject))
      leaves == [i \in DOMAIN cellIds |->
                   keccak256(cellIds[i] \o ":" \o canonical(Get(dataObject, cellIds[i])))]
  IN [root |-> getHexRoot(leaves),
      leavesIndex |-> Obj([i \in DOMAIN cellIds |-> <<cellIds[i], Num(i - 1)>>])]

(***************************************************************************)
(* JSON.stringify / JSON.parse.  A file's text is kept as the JSON value   *)
(* it denotes: stringify drops object members whose value is undefined and *)
(* writes NaN, and undefined array elements, as null.                      *)
(***************************************************************************)
RECURSIVE JSONstringify(_)
JSONstringify(v) ==
  CASE v.t = "NaN" -> Null
    [] v.t = "undefined" -> Null
    [] v.t = "array" -> Arr([i \in DOMAIN v.a |-> JSONstringify(v.a[i])])
    [] v.t = "object" ->
         LET kept == SelectSeq(v.kv, LAMBDA p : p[2].t # "undefined")
         IN Obj([i \in DOMAIN kept |-> <<kept[i][1], JSONstringify(kept[i][2])>>])
    [] OTHER -> v

\* JSON.parse of a text written by JSON.stringify
JSONparse(text) == text

(***************************************************************************)
(* The hexagonal grid (h3-js), a trusted oracle.  Three resolutions: one   *)
(* res-0 cell, two res-1 cells, four res-2 cells.  Ids of one resolution   *)
(* sort in the order of their digit path, as H3 indexes do.                *)
(***************************************************************************)
CellTable ==
  << [id |-> "80a",   res |-> 0, parent |-> "80a"],
     [id |-> "81a0",  res |-> 1, parent |-> "80a"],
     [id |-> "81a1",  res |-> 1, parent |-> "80a"],
     [id |-> "82a00", res |-> 2, parent |-> "81a0"],
     [id |-> "82a01", res |-> 2, parent |-> "81a0"],
     [id |-> "82a02", res |-> 2, parent |-> "81a0"],
     [id |-> "82a10", res |-> 2, parent |-> "81a1"] >>

CellRow(id) == CellTable[CHOOSE i \in DOMAIN CellTable : CellTable[i].id = id]

\* h3.isValidCell(id)
isValidCell(id) == \E i \in DOMAIN CellTable : CellTable[i].id = id

\* h3.getResolution(id)
getResolution(id) == CellRow(id).res

RECURSIVE cellToParent(_, _)
\* h3.cellToParent(id, res), for res <= getResolution(id)
cellToParent(id, res) ==
  IF getResolution(id) = res THEN id ELSE cellToParent(CellRow(id).parent, res)

\* h3.cellToLatLng(id): [lat, lng]
cellToLatLng(id) == Arr(<<Num(StrRank(id)), Num(getResolution(id))>>)

\* h3.cellToBoundary(id): [[lat, lng], ...]
cellToBoundary(id) ==
  Arr(<< Arr(<<Num(StrRank(id)), Num(0)>>), Arr(<<Num(StrRank(id)), Num(1)>>) >>)

(***************************************************************************)
(* Validation (validation.js).                                             *)
(***************************************************************************)
PM25_MIN == 0
PM25_MAX == 1000

\* validateSample(sample): the list of error messages, empty if valid.
\* NaN is a number that is neither below min nor above max.
validateSample(sample) ==
  LET id  == Get(sample, "geoCellId")
      val == Get(sample, "pm25")
      cellErr ==
        IF id.t # "undefined" /\ (id.t # "string" \/ ~isValidCell(id.s))
        THEN << "geoCellId invalido (" \o Template(id) \o ")" >>
        ELSE <<>>
      pmErr ==
        IF val.t = "number" /\ (val.q10 < 10 * PM25_MIN \/ val.q10 > 10 * PM25_MAX)
        THEN << "pm25 fora dos limites (" \o Template(val) \o ")" >>
        ELSE <<>>
  IN cellErr \o pmErr

ErrorsArr(errors) == Arr([i \in DOMAIN errors |-> Str(errors[i])])

(***************************************************************************)
(* Grouping (grouping.js: groupByParent, sortChildren, chunkStable,        *)
(* compressTopDown).  Parameters are a record; the hysteresis factors are  *)
(* held in tenths.                                                         *)
(***************************************************************************)
RECURSIVE GroupInto(_, _, _)
GroupInto(buckets, cellIds, parentRes) ==
  IF cellIds = <<>> THEN buckets
  ELSE LET id == Head(cellIds)
           parent == cellToParent(id, parentRes)
           old == IF Has(buckets, parent) THEN Get(buckets, parent) ELSE <<>>
       IN GroupInto(Set(buckets, parent, Append(old, id)), Tail(cellIds), parentRes)

\* groupByParent(cellIds, parentRes): parent -> children, parents in the
\* order of their first child
groupByParent(cellIds, parentRes) == GroupInto(Obj(<<>>), cellIds, parentRes)

\* sortChildren(children, ...) with useLocalIj = false, as runHGC calls it
sortChildren(children) == SortStrings(children)

RECURSIVE ChunkFrom(_, _, _, _, _, _)
ChunkFrom(i, st, childrenSorted, volumes, maxLeaves, maxVolume) ==
  IF i > Len(childrenSorted)
  THEN IF st.current # <<>> THEN Append(st.chunks, st.current) ELSE st.chunks
  ELSE LET child == childrenSorted[i]
           childLeaves == Len(child)
           childVol == volumes[i]
           seal == /\ st.current # <<>>
                   /\ \/ st.leaves + childLeaves > maxLeaves
                      \/ st.volume + childVol > maxVolume
           s1 == IF seal
                 THEN [chunks |-> Append(st.chunks, st.current), current |-> <<>>,
                       leaves |-> 0, volume |-> 0]
                 ELSE st
       IN ChunkFrom(i + 1,
                    [chunks |-> s1.chunks, current |-> Append(s1.current, child),
                     leaves |-> s1.leaves + childLeaves, volume |-> s1.volume + childVol],
                    childrenSorted, volumes, maxLeaves, maxVolume)

\* packing that seals after every group
chunkStable_OnePerChunk(childrenSorted, volumes, maxLeaves, maxVolume) ==
  [i \in DOMAIN childrenSorted |-> << childrenSorted[i] >>]

\* chunkStable(childrenSorted, volumes, maxLeaves, maxVolume)
chunkStable(childrenSorted, volumes, maxLeaves, maxVolume) ==
  ChunkFrom(1, [chunks |-> <<>>, current |-> <<>>, leaves |-> 0, volume |-> 0],
            childrenSorted, volumes, maxLeaves, maxVolume)

\* children.reduce((sum, id) => sum + sampleCountByCell[id], 0)
VolumeOf(children, sampleCountByCell) ==
  SumSeq([i \in DOMAIN children |-> sampleCountByCell[children[i]]])

\* a fit test no group passes
tooBig_Always(leaves, volumeSamples, params) == TRUE

\* the fit test against the plain budgets, hysteresisFar left out
tooBig_Plain(leaves, volumeSamples, params) ==
  \/ leaves > params.maxLeavesPerBatch
  \/ volumeSamples > params.maxSamplesPerBatch

\* the fit test with the sample budget left out
tooBig_LeavesOnly(leaves, volumeSamples, params) ==
  10 * leaves > params.maxLeavesPerBatch * params.hysteresisFar10

\* leaves > maxLeavesPerBatch * hysteresisFar || volume > maxSamplesPerBatch * hysteresisFar
tooBig(leaves, volumeSamples, params) ==
  \/ 10 * leaves > params.maxLeavesPerBatch * params.hysteresisFar10
  \/ 10 * volumeSamples > params.maxSamplesPerBatch * params.hysteresisFar10

RECURSIVE compressTopDown(_, _, _, _)
RECURSIVE CompressGroups(_, _, _, _, _)
RECURSIVE CompressChunks(_, _, _, _, _)

\* every chunk emitted at the resolution of the over-budget parent
CompressChunks_NoDescent(chunks, k, sampleCountByCell, currentRes, params) ==
  [j \in DOMAIN chunks |-> [res |-> currentRes, cells |-> FlatSeq(chunks[j])]]

\* the loop over the chunks of one over-budget parent
CompressChunks(chunks, k, sampleCountByCell, currentRes, params) ==
  IF k > Len(chunks) THEN <<>>
  ELSE compressTopDown(FlatSeq(chunks[k]), sampleCountByCell, currentRes + 1, params)
       \o CompressChunks(chunks, k + 1, sampleCountByCell, currentRes, params)

\* the loop over Object.entries(groups)
CompressGroups(groups, g, sampleCountByCell, currentRes, params) ==
  IF g > Len(groups.kv) THEN <<>>
  ELSE
    LET children == groups.kv[g][2]
        leaves == Len(children)
        volumeSamples == VolumeOf(children, sampleCountByCell)
        here ==
          IF ~tooBig(leaves, volumeSamples, params) \/ currentRes + 1 > params.baseRes
          THEN << [res |-> currentRes, cells |-> sortChildren(children)] >>
          ELSE
            LET nextGroups == groupByParent(children, currentRes + 1)
                nextIds == sortChildren(Keys(nextGroups))
                groupsArray == [i \in DOMAIN nextIds |->
                                  sortChildren(Get(nextGroups, nextIds[i]))]
                volumesArray == [i \in DOMAIN nextIds |->
                                   VolumeOf(Get(nextGroups, nextIds[i]), sampleCountByCell)]
                chunks == chunkStable(groupsArray, volumesArray,
                                      params.maxLeavesPerBatch, params.maxSamplesPerBatch)
            IN CompressChunks(chunks, 1, sampleCountByCell, currentRes, params)
    IN here \o CompressGroups(groups, g + 1, sampleCountByCell, currentRes, params)

\* compressTopDown(cellIds, sampleCountByCell, currentRes, false, params)
compressTopDown(cellIds, sampleCountByCell, currentRes, params) ==
  IF currentRes = params.baseRes
  THEN << [res |-> currentRes, cells |-> cellIds] >>
  ELSE CompressGroups(groupByParent(cellIds, currentRes), 1,
                      sampleCountByCell, currentRes, params)

(***************************************************************************)
(* runHGC (hgc.js).                                                        *)
(***************************************************************************)
WINDOW_MS == 3600000
SCHEMA_VERSION == 1

\* the params object as loadHgcConfig builds it
ParamsObj(params) ==
  Obj(<< <<"baseRes", Num(params.baseRes)>>,
         <<"minRes", Num(params.minRes)>>,
         <<"volume", Num(params.volume)>>,
         <<"maxLeavesPerBatch", Num(params.maxLeavesPerBatch)>>,
         <<"maxSamplesPerBatch", Num(params.maxSamplesPerBatch)>>,
         <<"hysteresisNear", Dec(params.hysteresisNear10)>>,
         <<"hysteresisFar", Dec(params.hysteresisFar10)>> >>)

\* a count of one per entry, inner array or not
EntryCount_One(e) == 1

\* Array.isArray(e.samples) ? e.samples.length : 1
EntryCount(e) ==
  IF Get(e, "samples").t = "array" THEN Len(Get(e, "samples").a) ELSE 1

\* a dedup key that leaves the timestamp out
DedupKey_IssuerOnly(s, id) ==
  IF Get(s, "issuer").t # "undefined" /\ Get(s, "timestamp").t # "undefined"
  THEN Template(Get(s, "issuer"))
  ELSE sha256HexCanonical(Set(s, "geoCellId", Str(id)))

\* (s.issuer !== undefined && s.timestamp !== undefined)
\*   ? `${s.issuer}-${s.timestamp}` : sha256HexCanonical({ ...s, geoCellId: id })
DedupKey(s, id) ==
  IF Get(s, "issuer").t # "undefined" /\ Get(s, "timestamp").t # "undefined"
  THEN Template(Get(s, "issuer")) \o "-" \o Template(Get(s, "timestamp"))
  ELSE sha256HexCanonical(Set(s, "geoCellId", Str(id)))

RECURSIVE ValidateInner(_, _, _, _, _)
\* the loop over the inner array: the valid ones, the marked ones, a throw
ValidateInner(arr, i, id, onInvalid, acc) ==
  IF i > Len(arr) \/ acc.thrown # "" THEN acc
  ELSE
    LET sample == arr[i]
        withId == Set(sample, "geoCellId", Str(id))
        errors == validateSample(withId)
        next ==
          IF errors # <<>>
          THEN IF onInvalid = "throw"
               THEN [acc EXCEPT !.thrown = JoinWith(errors, "; ")]
               ELSE IF onInvalid = "mark"
               THEN [acc EXCEPT !.invalid =
                       Append(@, Set(withId, "errors", ErrorsArr(errors)))]
               ELSE acc
          ELSE [acc EXCEPT !.valid = Append(@, sample)]
    IN ValidateInner(arr, i + 1, id, onInvalid, next)

\* one iteration of the loop over the samples
IngestOne(st, s, baseRes, onInvalid) ==
  LET topErrors == validateSample(s)
  IN
  IF st.thrown # "" THEN st
  ELSE IF topErrors # <<>>
  THEN IF onInvalid = "throw"
       THEN [st EXCEPT !.thrown = JoinWith(topErrors, "; ")]
       ELSE IF onInvalid = "mark"
       THEN [st EXCEPT !.invalid = Append(@, Set(s, "errors", ErrorsArr(topErrors)))]
       ELSE st
  ELSE
    LET raw == Get(s, "geoCellId").s
        id == IF getResolution(raw) # baseRes THEN cellToParent(raw, baseRes) ELSE raw
        tmp1 == IF ~Has(st.tmp, id) THEN Set(st.tmp, id, Obj(<<>>)) ELSE st.tmp
        cellMap == Get(tmp1, id)
        key == DedupKey(s, id)
        isArr == Get(s, "samples").t = "array"
        arr == IF isArr THEN Get(s, "samples").a ELSE <<s>>
        inner == ValidateInner(arr, 1, id, onInvalid,
                               [valid |-> <<>>, invalid |-> st.invalid, thrown |-> ""])
        payload == IF isArr
                   THEN Set(Set(s, "geoCellId", Str(id)), "samples", Arr(inner.valid))
                   ELSE Set(s, "geoCellId", Str(id))
    IN
    IF Has(cellMap, key) THEN [st EXCEPT !.tmp = tmp1]
    ELSE IF inner.thrown # "" THEN [st EXCEPT !.thrown = inner.thrown]
    ELSE IF inner.valid = <<>>
    THEN [st EXCEPT !.tmp = tmp1, !.invalid = inner.invalid]
    ELSE [st EXCEPT !.tmp = Set(tmp1, id, Set(cellMap, key, payload)),
                    !.invalid = inner.invalid]

RECURSIVE Ingest(_, _, _, _, _)
Ingest(st, samples, i, baseRes, onInvalid) ==
  IF i > Len(samples) THEN st
  ELSE Ingest(IngestOne(st, samples[i], baseRes, onInvalid), samples, i + 1,
              baseRes, onInvalid)

\* a.timestamp ?? 0, the key of the comparator
TsOrZero(e) == IF Get(e, "timestamp").t = "number" THEN Get(e, "timestamp").q10 ELSE 0

\* Array.from(map.values()).sort(by timestamp)
EntriesOf(cellMap) ==
  StableSort([i \in DOMAIN cellMap.kv |-> TsOrZero(cellMap.kv[i][2])],
             [i \in DOMAIN cellMap.kv |-> cellMap.kv[i][2]])

\* tsMin / tsMax start at +Infinity / -Infinity (here: no value yet)
NoTs == [t |-> "Infinity"]

RECURSIVE TsFold(_, _, _, _)
\* the loop over sortedCells that keeps tsMin and tsMax: only the first and
\* the last entry of each cell are read
TsFold(sortedCells, i, entriesByCell, acc) ==
  IF i > Len(sortedCells) THEN acc
  ELSE
    LET arr == Get(entriesByCell, sortedCells[i])
        first == Get(arr[1], "timestamp")
        last == Get(arr[Len(arr)], "timestamp")
        mn == IF arr # <<>> /\ first.t = "number"
                 /\ (acc.tsMin = NoTs \/ first.q10 < acc.tsMin.q10)
              THEN first ELSE acc.tsMin
        mx == IF arr # <<>> /\ last.t = "number"
                 /\ (acc.tsMax = NoTs \/ last.q10 > acc.tsMax.q10)
              THEN last ELSE acc.tsMax
    IN TsFold(sortedCells, i + 1, entriesByCell, [tsMin |-> mn, tsMax |-> mx])

\* the hash taken over an object that already carries a hash member
WithHash_OverHash(batchObj) ==
  LET withField == Set(batchObj, "hash", Str(""))
  IN Set(withField, "hash", Str(sha256HexCanonical(withField)))

\* batchObj.hash = sha256HexCanonical(batchObj), taken before the hash is set
WithHash(batchObj) == Set(batchObj, "hash", Str(sha256HexCanonical(batchObj)))

\* one geoBatch from one segment { res, cells }
MakeBatch(seg, entriesByCell, epoch, params) ==
  LET parent == cellToParent(seg.cells[1], seg.res)
      sortedCells == SortStrings(seg.cells)
      dataObj == Obj([i \in DOMAIN sortedCells |->
                        <<sortedCells[i], Arr(Get(entriesByCell, sortedCells[i]))>>])
      countSamples ==
        SumSeq([i \in DOMAIN sortedCells |->
                  LET arr == Get(entriesByCell, sortedCells[i])
                  IN SumSeq([j \in DOMAIN arr |-> EntryCount(arr[j])])])
      ts == TsFold(sortedCells, 1, entriesByCell, [tsMin |-> NoTs, tsMax |-> NoTs])
      mr == merkleRootAndIndex(dataObj)
  IN WithHash(Obj(<<
       <<"geoBatchId", Str(parent)>>,
       <<"epoch", Num(epoch)>>,
       <<"compressedFrom", Arr([i \in DOMAIN sortedCells |-> Str(sortedCells[i])])>>,
       <<"data", dataObj>>,
       <<"countLeaves", Num(Len(sortedCells))>>,
       <<"countSamples", Num(countSamples)>>,
       <<"tsMin", IF ts.tsMin = NoTs THEN Null ELSE ts.tsMin>>,
       <<"tsMax", IF ts.tsMax = NoTs THEN Null ELSE ts.tsMax>>,
       <<"center", cellToLatLng(parent)>>,
       <<"boundary", cellToBoundary(parent)>>,
       <<"resBase", Num(params.baseRes)>>,
       <<"resBatch", Num(seg.res)>>,
       <<"epochStartMs", Num(epoch * WINDOW_MS)>>,
       <<"windowMs", Num(WINDOW_MS)>>,
       <<"schemaVersion", Num(SCHEMA_VERSION)>>,
       <<"hgcParams", ParamsObj(params)>>,
       <<"merkleRoot", Str(mr.root)>>,
       <<"leavesIndex", mr.leavesIndex>> >>))

\* a super-root computed over the batches in the order they are given
computeEpochSuperRoot_InputOrder(batches) ==
  LET leaves == [i \in DOMAIN batches |->
                   keccak256(Get(batches[i], "geoBatchId").s \o
                             Template(Get(batches[i], "merkleRoot")))]
  IN [superRoot |-> getHexRoot(leaves),
      batchIds |-> [i \in DOMAIN batches |-> Get(batches[i], "geoBatchId")],
      batchRoots |-> [i \in DOMAIN batches |-> Get(batches[i], "merkleRoot")]]

\* computeEpochSuperRoot(batches)
computeEpochSuperRoot(batches) ==
  LET sorted == StableSort([i \in DOMAIN batches |->
                              StrRank(Get(batches[i], "geoBatchId").s)], batches)
      leaves == [i \in DOMAIN sorted |->
                   keccak256(Get(sorted[i], "geoBatchId").s \o
                             Template(Get(sorted[i], "merkleRoot")))]
  IN [superRoot |-> getHexRoot(leaves),
      batchIds |-> [i \in DOMAIN sorted |-> Get(sorted[i], "geoBatchId")],
      batchRoots |-> [i \in DOMAIN sorted |-> Get(sorted[i], "merkleRoot")]]

RECURSIVE MapFrom(_, _, _)
\* map[cell] = parent, batch by batch, cell by cell
MapFrom(batches, i, acc) ==
  IF i > Len(batches) THEN acc
  ELSE LET cf == Get(batches[i], "compressedFrom").a
           Put[j \in 0..Len(cf)] ==
             IF j = 0 THEN acc ELSE Set(Put[j - 1], cf[j].s, Get(batches[i], "geoBatchId"))
       IN MapFrom(batches, i + 1, Put[Len(cf)])

\* what a throwing call leaves: no result
Thrown(msg, params) ==
  [thrown |-> msg, batches |-> <<>>, map |-> Obj(<<>>), superRoot |-> "",
   summary |-> [batchesTotal |-> 0], invalidSamples |-> <<>>, hgcParams |-> params]

\* entriesByCell[cell] = Array.from(map.values()).sort(by timestamp)
EntriesByCell(tmp) ==
  Obj([i \in DOMAIN tmp.kv |-> <<tmp.kv[i][1], EntriesOf(tmp.kv[i][2])>>])

\* entriesByCell[id].reduce((sum, entry) => sum + count(entry), 0)
SampleCountOf(arr) == SumSeq([j \in DOMAIN arr |-> EntryCount(arr[j])])

SampleCountByCell(entriesByCell) ==
  [c \in Range(Keys(entriesByCell)) |-> SampleCountOf(Get(entriesByCell, c))]

\* compressTopDown(allCells, sampleCountByCell, undefined, false, params):
\* allCells sorted, currentRes defaulting to params.minRes
Compressed(entriesByCell, params) ==
  compressTopDown(SortStrings(Keys(entriesByCell)),
                  SampleCountByCell(entriesByCell), params.minRes, params)

\* the loop over the segments: one batch each, in the order of the segments
Batches(compressed, entriesByCell, epoch, params) ==
  [i \in DOMAIN compressed |->
     MakeBatch(compressed[i], entriesByCell, epoch, params)]

\* { batches, map, superRoot, summary, invalidSamples, hgcParams: params }
HGCResult(batches, invalid, params) ==
  [thrown |-> "",
   batches |-> batches,
   map |-> MapFrom(batches, 1, Obj(<<>>)),
   superRoot |-> computeEpochSuperRoot(batches).superRoot,
   summary |-> [batchesTotal |-> Len(batches)],
   invalidSamples |-> invalid,
   hgcParams |-> params]

\* runHGC after the loop over the samples: a throw, or the result
HGCFrom(st, epoch, params) ==
  IF st.thrown # "" THEN Thrown(st.thrown, params)
  ELSE HGCResult(Batches(Compressed(EntriesByCell(st.tmp), params),
                         EntriesByCell(st.tmp), epoch, params),
                 st.invalid, params)

\* runHGC(samples, epoch, params, { onInvalid })
runHGC(samples, epoch, params, onInvalid) ==
  HGCFrom(Ingest([tmp |-> Obj(<<>>), invalid |-> <<>>, thrown |-> ""],
                 samples, 1, params.baseRes, onInvalid),
          epoch, params)

\* addMerkleRoots(batches): only a batch without merkleRoot or leavesIndex
\* gets them; a non-empty string and an object are truthy
Truthy(v) ==
  CASE v.t = "undefined" -> FALSE
    [] v.t = "null" -> FALSE
    [] v.t = "NaN" -> FALSE
    [] v.t = "string" -> v.s # ""
    [] v.t = "number" -> v.q10 # 0
    [] OTHER -> TRUE

addMerkleRoots(batches) ==
  [i \in DOMAIN batches |->
     LET b == batches[i]
         mr == merkleRootAndIndex(Get(b, "data"))
     IN IF Truthy(Get(b, "merkleRoot")) /\ Truthy(Get(b, "leavesIndex")) THEN b
        ELSE Set(Set(b, "merkleRoot", Str(mr.root)), "leavesIndex", mr.leavesIndex)]

(***************************************************************************)
(* Configuration (loadHgcConfig).  A command-line argument '--name=value'  *)
(* is the pair <<name, value>>; process.env is an object of texts.  The    *)
(* numeric texts in use are listed with the number they denote; the       *)
(* numbers of a configuration are held in hundredths (0.95, 1.05).         *)
(***************************************************************************)
\* a number held in hundredths
Cent(q) == [t |-> "number", q100 |-> q]

NumericTexts ==
  << <<"0", 0>>, <<"3", 300>>, <<"5", 500>>, <<"6", 600>>, <<"8", 800>>,
     <<"100", 10000>>, <<"5000", 500000>>, <<"0.8", 80>>, <<"1.2", 120>> >>

HundredthsOf(text) ==
  NumericTexts[CHOOSE i \in DOMAIN NumericTexts : NumericTexts[i][1] = text][2]

\* parseFloat(text)
parseFloat(text) == Cent(HundredthsOf(text))

\* parseInt(text): the digits before the decimal point
parseInt(text) == Cent(100 * (HundredthsOf(text) \div 100))

\* parseArg(name, argv): the value of the first argument '--name=...'
parseArg(name, argv) ==
  IF \E i \in DOMAIN argv : argv[i][1] = name
  THEN Str(argv[CHOOSE i \in DOMAIN argv :
                  /\ argv[i][1] = name
                  /\ \A j \in 1..(i - 1) : argv[j][1] # name][2])
  ELSE Undef

\* paramsForVolume(volume)
paramsForVolume(volume) ==
  IF volume.q100 >= 100 * 5000
  THEN Obj(<< <<"maxLeavesPerBatch", Cent(100 * 8192)>>,
              <<"maxSamplesPerBatch", Cent(100 * 32000)>>,
              <<"hysteresisNear", Cent(95)>>, <<"hysteresisFar", Cent(105)>> >>)
  ELSE Obj(<< <<"maxLeavesPerBatch", Cent(100 * 4096)>>,
              <<"maxSamplesPerBatch", Cent(100 * 16000)>>,
              <<"hysteresisNear", Cent(90)>>, <<"hysteresisFar", Cent(110)>> >>)

RECURSIVE Spread(_, _, _)
\* { ...a, ...b }: every own member of b is copied, undefined values too
Spread(a, b, i) ==
  IF i > Len(b.kv) THEN a ELSE Spread(Set(a, b.kv[i][1], b.kv[i][2]), b, i + 1)

\* process.env.NAME ?? fallback
EnvOr(env, name, fallback) ==
  IF Get(env, name).t = "undefined" THEN fallback ELSE Get(env, name).s

RECURSIVE ApplyOverrides(_, _, _)
\* the loop over the entries of { ...envOverrides, ...cliOverrides }
ApplyOverrides(cfg, entries, i) ==
  IF i > Len(entries) THEN cfg
  ELSE LET key == entries[i][1]
           value == entries[i][2]
       IN ApplyOverrides(
            IF value.t # "undefined"
            THEN Set(cfg, key,
                     IF key \in {"hysteresisNear", "hysteresisFar"}
                     THEN parseFloat(value.s) ELSE parseInt(value.s))
            ELSE cfg,
            entries, i + 1)

\* the object whose entries the loop goes over
Overrides(argv, env) ==
  LET envOverrides ==
        Obj(<< <<"maxLeavesPerBatch", Get(env, "HGC_MAX_LEAVES_PER_BATCH")>>,
               <<"maxSamplesPerBatch", Get(env, "HGC_MAX_SAMPLES_PER_BATCH")>>,
               <<"hysteresisNear", Get(env, "HGC_HYSTERESIS_NEAR")>>,
               <<"hysteresisFar", Get(env, "HGC_HYSTERESIS_FAR")>> >>)
      cliOverrides ==
        Obj(<< <<"baseRes", parseArg("baseRes", argv)>>,
               <<"minRes", parseArg("minRes", argv)>>,
               <<"maxLeavesPerBatch", parseArg("maxLeavesPerBatch", argv)>>,
               <<"maxSamplesPerBatch", parseArg("maxSamplesPerBatch", argv)>>,
               <<"hysteresisNear", parseArg("hysteresisNear", argv)>>,
               <<"hysteresisFar", parseArg("hysteresisFar", argv)>> >>)
  IN Spread(envOverrides, cliOverrides, 1)

\* loadHgcConfig(argv), with process.env = env
loadHgcConfig(argv, env) ==
  LET volumeArg == parseArg("volume", argv)
      volume == IF volumeArg.t # "undefined" THEN parseInt(volumeArg.s)
                ELSE parseInt(EnvOr(env, "HGC_VOLUME", "0"))
      defaults == paramsForVolume(volume)
      cfg == Spread(Obj(<< <<"baseRes", parseInt(EnvOr(env, "HGC_BASE_RES", "8"))>>,
                           <<"minRes", parseInt(EnvOr(env, "HGC_MIN_RES", "0"))>>,
                           <<"volume", volume>> >>),
                    defaults, 1)
  IN ApplyOverrides(cfg, Overrides(argv, env).kv, 1)

(***************************************************************************)
(* Persistence (persistence.js: saveResults) and the verifier (verify.mjs).*)
(* A file is addressed by <<directory, name>>; its content is the JSON     *)
(* value written.                                                          *)
(***************************************************************************)
DataDir == "data"
EpochDir(epoch) == DataDir \o "/epoch_" \o ToString(epoch)
BatchFile(epoch, b) == <<EpochDir(epoch), Get(b, "geoBatchId").s \o ".json">>
SuperRootFile(epoch) == <<EpochDir(epoch), "superRoot.json">>
MapFile == <<DataDir, "cellToBatchMap.json">>

\* fs.promises.writeFile(path, text)
WriteFile(fs, path, text) ==
  [q \in DOMAIN fs \cup {path} |-> IF q = path THEN text ELSE fs[q]]

\* const payload = { ...b }; if (b.merkleRoot) payload.merkleRoot = b.merkleRoot
BatchPayload(b) ==
  IF Truthy(Get(b, "merkleRoot")) THEN Set(b, "merkleRoot", Get(b, "merkleRoot")) ELSE b

RECURSIVE ReduceTs(_, _, _, _)
\* batches.reduce((m, b) => (b[k] !== null && b[k] < m ? b[k] : m), Infinity),
\* and the same with > and -Infinity
ReduceTs(batches, i, k, m) ==
  IF i > Len(batches) THEN m
  ELSE LET v == Get(batches[i], k)
           better == /\ v.t = "number"
                     /\ \/ m = NoTs
                        \/ IF k = "tsMin" THEN v.q10 < m.q10 ELSE v.q10 > m.q10
       IN ReduceTs(batches, i + 1, k, IF better THEN v ELSE m)

\* the object written to superRoot.json (meta = {})
SuperPayload(result, epoch) ==
  LET sr == computeEpochSuperRoot(result.batches)
      tsMin == ReduceTs(result.batches, 1, "tsMin", NoTs)
      tsMax == ReduceTs(result.batches, 1, "tsMax", NoTs)
      samplesTotal ==
        SumSeq([i \in DOMAIN result.batches |->
                  LET c == Get(result.batches[i], "countSamples")
                  IN IF Truthy(c) THEN IntOf(c) ELSE 0])
  IN Obj(<< <<"epoch", Num(epoch)>>,
            <<"superRoot", Str(sr.superRoot)>>,
            <<"batchIds", Arr(sr.batchIds)>>,
            <<"batchRoots", Arr(sr.batchRoots)>>,
            <<"schemaVersion", Num(SCHEMA_VERSION)>>,
            <<"hgcParams", ParamsObj(result.hgcParams)>>,
            <<"tsMin", IF tsMin = NoTs THEN Null ELSE tsMin>>,
            <<"tsMax", IF tsMax = NoTs THEN Null ELSE tsMax>>,
            <<"batchesTotal", Num(Len(result.batches))>>,
            <<"samplesTotal", Num(samplesTotal)>> >>)

\* the epochs of the model, and Number(key) of a key of the map file
Epochs == {1, 2}
NumberOfKey(k) == CHOOSE e \in Epochs : ToString(e) = k

\* the message of the conflict error (accents left out)
ConflictText(cell, existing, new) ==
  "celula " \o cell \o " ja mapeada para " \o existing \o " (novo: " \o new \o ")"

RECURSIVE MergeFrom(_, _, _)
\* the loop over Object.entries(map): the first cell recorded under another
\* batch id throws, the others are set
MergeFrom(entries, i, acc) ==
  IF i > Len(entries) \/ acc.error # "" THEN acc
  ELSE LET cell == entries[i][1]
           batchId == entries[i][2]
           old == Get(acc.epochMap, cell)
       IN IF Truthy(old) /\ old # batchId
          THEN MergeFrom(entries, i + 1,
                 [acc EXCEPT !.error = ConflictText(cell, Template(old),
                                                    Template(batchId))])
          ELSE MergeFrom(entries, i + 1,
                 [acc EXCEPT !.epochMap = Set(@, cell, batchId)])

\* the merge without the conflict test: a recorded cell is overwritten
MergeMap_Overwrite(merged, map, epoch) ==
  LET key == ToString(epoch)
      m1 == IF ~Truthy(Get(merged, key)) THEN Set(merged, key, Obj(<<>>)) ELSE merged
      Put[j \in 0..Len(map.kv)] ==
        IF j = 0 THEN Get(m1, key) ELSE Set(Put[j - 1], map.kv[j][1], map.kv[j][2])
  IN [error |-> "", merged |-> Set(m1, key, Put[Len(map.kv)])]

\* a merge that refuses every cell the epoch has recorded, same id or not
MergeMap_Strict(merged, map, epoch) ==
  LET key == ToString(epoch)
      m1 == IF ~Truthy(Get(merged, key)) THEN Set(merged, key, Obj(<<>>)) ELSE merged
  IN IF \E j \in DOMAIN map.kv : Truthy(Get(Get(m1, key), map.kv[j][1]))
     THEN [error |-> "conflict", merged |-> m1]
     ELSE MergeMap_Overwrite(merged, map, epoch)

\* merged after the loop, or the error thrown
MergeMap(merged, map, epoch) ==
  LET key == ToString(epoch)
      m1 == IF ~Truthy(Get(merged, key)) THEN Set(merged, key, Obj(<<>>)) ELSE merged
      r == MergeFrom(map.kv, 1, [error |-> "", epochMap |-> Get(m1, key)])
  IN [error |-> r.error, merged |-> Set(m1, key, r.epochMap)]

\* epochs in numeric order, the cells of each in cell-id order
SortMap(merged) ==
  LET es == StableSort([i \in DOMAIN merged.kv |-> NumberOfKey(merged.kv[i][1])],
                       Keys(merged))
  IN Obj([i \in DOMAIN es |->
            LET cells == Get(merged, es[i])
                ks == SortStrings(Keys(cells))
            IN <<es[i], Obj([j \in DOMAIN ks |-> <<ks[j], Get(cells, ks[j])>>])>>])

(***************************************************************************)
(* verify.mjs                                                              *)
(***************************************************************************)
\* a verifier that recomputes the Merkle root only
verifyFile_MerkleOnly(fs, file) ==
  LET json == JSONparse(fs[file])
      data == Get(json, "data")
  IN /\ data.t = "object"
     /\ Str(merkleRootAndIndex(data).root) = Get(json, "merkleRoot")

\* verifyFile(file).ok
verifyFile(fs, file) ==
  LET json == JSONparse(fs[file])
      objNoHash == Delete(json, "hash")
      data == Get(objNoHash, "data")
  IN /\ data.t = "object"
     /\ Str(sha256HexCanonical(objNoHash)) = Get(json, "hash")
     /\ Str(merkleRootAndIndex(data).root) = Get(objNoHash, "merkleRoot")

\* fs.readdir(dir): the names of the files in dir
Readdir(fs, dir) == { f \in DOMAIN fs : f[1] = dir }

RECURSIVE SeqOfSet(_)
SeqOfSet(S) == IF S = {} THEN <<>>
               ELSE LET x == CHOOSE y \in S : TRUE IN <<x>> \o SeqOfSet(S \ {x})

\* verifySuperRootFile(file).ok
verifySuperRootFile(fs, file) ==
  LET json == JSONparse(fs[file])
      siblings == { f \in Readdir(fs, file[1]) : f[2] # "superRoot.json" }
      found == { JSONparse(fs[f]) : f \in
                   { g \in siblings : Truthy(Get(JSONparse(fs[g]), "geoBatchId"))
                                      /\ Truthy(Get(JSONparse(fs[g]), "merkleRoot")) } }
      sr == computeEpochSuperRoot(SeqOfSet(found))
  IN /\ Get(json, "superRoot") = Str(sr.superRoot)
     /\ JSONstringify(Get(json, "batchIds")) = JSONstringify(Arr(sr.batchIds))
     /\ JSONstringify(Get(json, "batchRoots")) = JSONstringify(Arr(sr.batchRoots))

\* verifyDir(dir): one result per file
verifyDir(fs, dir) ==
  { [file |-> f,
     ok |-> IF f[2] = "superRoot.json" THEN verifySuperRootFile(fs, f)
            ELSE verifyFile(fs, f)] : f \in Readdir(fs, dir) }

(***************************************************************************)
(* Inputs.                                                                 *)
(***************************************************************************)
Sample(kv) == Obj(kv)

\* the samples a list is drawn from
SampleUniverse ==
  { \* two readings of one cell with equal timestamps and different issuers
    Sample(<< <<"geoCellId", Str("82a00")>>, <<"issuer", Str("a")>>,
              <<"timestamp", Num(1)>>, <<"pm25", Num(1)>> >>),
    Sample(<< <<"geoCellId", Str("82a00")>>, <<"issuer", Str("b")>>,
              <<"timestamp", Num(1)>>, <<"pm25", Num(2)>> >>),
    \* the dedup key of the first one, another payload
    Sample(<< <<"geoCellId", Str("82a00")>>, <<"issuer", Str("a")>>,
              <<"timestamp", Num(1)>>, <<"pm25", Num(3)>> >>),
    \* no issuer: keyed by content hash
    Sample(<< <<"geoCellId", Str("82a01")>>, <<"timestamp", Num(2)>>,
              <<"pm25", Num(1)>> >>),
    \* an inner array with one valid and one invalid reading
    Sample(<< <<"geoCellId", Str("82a02")>>, <<"issuer", Str("a")>>,
              <<"timestamp", Num(0)>>,
              <<"samples", Arr(<< Obj(<< <<"pm25", Num(1)>> >>),
                                  Obj(<< <<"pm25", Num(-1)>> >>) >>)>> >>),
    \* an empty inner array
    Sample(<< <<"geoCellId", Str("82a10")>>, <<"samples", Arr(<<>>)>> >>),
    \* out of range at top level
    Sample(<< <<"geoCellId", Str("82a01")>>, <<"pm25", Num(-1)>> >>) }

\* a reading whose pm25 is NaN: a number within no bound it is compared to
NaNSample ==
  Sample(<< <<"geoCellId", Str("82a01")>>, <<"issuer", Str("a")>>,
            <<"timestamp", Num(3)>>, <<"pm25", NaN>> >>)

\* lists of readings that are not in SampleUniverse
ExtraLists ==
  LET inner(c, i, arr) == Sample(<< <<"geoCellId", Str(c)>>, <<"issuer", Str(i)>>,
                                    <<"timestamp", Num(0)>>, <<"samples", Arr(arr)>> >>)
      plain(c, i, ts) == Sample(<< <<"geoCellId", Str(c)>>, <<"issuer", Str(i)>>,
                                   <<"timestamp", Num(ts)>>, <<"pm25", Num(1)>> >>)
  IN { \* a valid reading, then its dedup key again with an inner reading
       \* that is out of range
       << plain("82a02", "a", 0),
          inner("82a02", "a", << Obj(<< <<"pm25", Num(1)>> >>),
                                 Obj(<< <<"pm25", Num(-1)>> >>) >>) >>,
       \* an inner reading that carries a cell id of its own, not a cell
       << inner("82a02", "b", << Obj(<< <<"geoCellId", Str("zzz")>>,
                                        <<"pm25", Num(1)>> >>) >>) >>,
       \* a key whose first holder has no valid inner reading
       << inner("82a02", "a", << Obj(<< <<"pm25", Num(-1)>> >>) >>),
          plain("82a02", "a", 0) >>,
       \* two cells, one entry with two inner readings
       << inner("82a00", "a", << Obj(<< <<"pm25", Num(1)>> >>),
                                 Obj(<< <<"pm25", Num(2)>> >>) >>),
          plain("82a01", "a", 1) >>,
       \* a cell whose entries are one without timestamp and one with
       << Sample(<< <<"geoCellId", Str("82a01")>>, <<"issuer", Str("a")>>,
                    <<"pm25", Num(1)>> >>),
          plain("82a01", "a", 2) >>,
       \* an issuer that ends in '-' and a negative timestamp, in one cell
       << plain("82a02", "a-", 1), plain("82a02", "a", -1) >> }

SampleLists == UNION { [1..n -> SampleUniverse] : n \in 0..MaxSamples } \cup ExtraLists

\* parameter sets: budgets small enough for the hierarchy to be split
ParamSets ==
  { [baseRes |-> 2, minRes |-> 0, maxLeavesPerBatch |-> 2, maxSamplesPerBatch |-> 3,
     hysteresisNear10 |-> 9, hysteresisFar10 |-> 11, volume |-> 0],
    [baseRes |-> 2, minRes |-> 1, maxLeavesPerBatch |-> 1, maxSamplesPerBatch |-> 1,
     hysteresisNear10 |-> 9, hysteresisFar10 |-> 11, volume |-> 0],
    [baseRes |-> 1, minRes |-> 0, maxLeavesPerBatch |-> 1, maxSamplesPerBatch |-> 2,
     hysteresisNear10 |-> 9, hysteresisFar10 |-> 15, volume |-> 0] }

OnInvalidModes == {"throw", "mark", "discard"}

\* the runs saveResults is given: one cell, two cells of different parents,
\* a NaN reading; under parameters that name a cell's batch differently
PersistLists ==
  LET u(c, i, ts) == Sample(<< <<"geoCellId", Str(c)>>, <<"issuer", Str(i)>>,
                               <<"timestamp", Num(ts)>>, <<"pm25", Num(1)>> >>)
  IN { << u("82a10", "a", 2) >>,
       << u("82a10", "a", 2), u("82a00", "a", 1) >>,
       << NaNSample >> }

PersistParams == { p \in ParamSets : p.baseRes = 2 }

(***************************************************************************)
(* State.                                                                  *)
(*   hgc        the call of runHGC under study and what it returned        *)
(*   sv[p]      the saveResults call p is in: its position, arguments and  *)
(*              locals                                                     *)
(*   files      the files under the base directory                        *)
(*   dirs       the directories under the base directory                  *)
(*   verifyOut  the results the verifyDir call just made returned          *)
(*   runs       saveResults calls started                                  *)
(***************************************************************************)
Procs == {1, 2}

NoParams == CHOOSE p \in ParamSets : TRUE
NoResult == Thrown("", NoParams)
EmptyFS == [q \in {} |-> Null]

IdleSaver ==
  [pc |-> "idle", epoch |-> 0, result |-> NoResult, i |-> 0,
   merged |-> Obj(<<>>), error |-> "", logHash |-> "",
   before |-> [files |-> EmptyFS, dirs |-> {}]]

NoVerify == [dir |-> "", at |-> 0, results |-> {}, exit |-> 0]

\* no file has been edited behind the program's back
NoEdit == [file |-> <<"", "">>, field |-> "", old |-> Null, new |-> Null]

\* no call of a pure function under study
NoCall == [fn |-> "", phase |-> "none"]

Init ==
  /\ hgc = [phase |-> "none", samples |-> <<>>, epoch |-> 0, params |-> NoParams,
            onInvalid |-> "throw", result |-> NoResult]
  /\ sv = [p \in Procs |-> IdleSaver]
  /\ files = EmptyFS
  /\ dirs = {}
  /\ verifyOut = NoVerify
  /\ runs = 0
  /\ edit = NoEdit
  /\ call = NoCall

(***************************************************************************)
(* runHGC as a call: the inputs are drawn, the function is applied.        *)
(***************************************************************************)
InitHGC ==
  /\ \E samples \in SampleLists, params \in ParamSets, onInvalid \in OnInvalidModes :
       hgc = [phase |-> "input", samples |-> samples, epoch |-> 1, params |-> params,
              onInvalid |-> onInvalid, result |-> NoResult]
  /\ sv = [p \in Procs |-> IdleSaver]
  /\ files = EmptyFS
  /\ dirs = {}
  /\ verifyOut = NoVerify
  /\ runs = 0
  /\ edit = NoEdit
  /\ call = NoCall

RunHGC ==
  /\ hgc.phase = "input"
  /\ hgc' = [hgc EXCEPT !.phase = "ran",
                        !.result = runHGC(hgc.samples, hgc.epoch, hgc.params,
                                          hgc.onInvalid)]
  /\ UNCHANGED <<sv, files, dirs, verifyOut, runs, edit, call>>

AddMerkleRoots ==
  /\ hgc.phase = "ran"
  /\ hgc.result.thrown = ""
  /\ hgc' = [hgc EXCEPT !.phase = "rooted",
                        !.result.batches = addMerkleRoots(hgc.result.batches)]
  /\ UNCHANGED <<sv, files, dirs, verifyOut, runs, edit, call>>

NextHGC == RunHGC \/ AddMerkleRoots

SpecHGC == InitHGC /\ [][NextHGC]_vars

(***************************************************************************)
(* saveResults, one step per await.                                        *)
(***************************************************************************)
\* runEpoch: runHGC(samples, epoch, params), then saveResults(result, epoch)
Start(p) ==
  /\ sv[p].pc \in {"idle", "done", "failed"}
  /\ runs < MaxRuns
  /\ \E samples \in PersistLists, epoch \in Epochs, params \in PersistParams :
       LET result == runHGC(samples, epoch, params, "throw")
       IN /\ result.thrown = ""
          /\ sv' = [sv EXCEPT ![p] =
                      [IdleSaver EXCEPT !.pc = "mkdir", !.epoch = epoch,
                                        !.result = result, !.i = 1,
                                        !.before = [files |-> files, dirs |-> dirs]]]
  /\ runs' = runs + 1
  /\ verifyOut' = NoVerify
  /\ UNCHANGED <<hgc, files, dirs, edit, call>>

\* await fs.promises.mkdir(dir, { recursive: true })
Mkdir(p) ==
  /\ sv[p].pc = "mkdir"
  /\ dirs' = dirs \cup {DataDir, EpochDir(sv[p].epoch)}
  /\ sv' = [sv EXCEPT ![p].pc = "write"]
  /\ UNCHANGED <<hgc, files, verifyOut, runs, edit, call>>

\* await fs.promises.writeFile(<geoBatchId>.json, JSON.stringify(payload))
WriteBatch(p) ==
  /\ sv[p].pc = "write"
  /\ sv[p].i <= Len(sv[p].result.batches)
  /\ LET b == sv[p].result.batches[sv[p].i]
     IN files' = WriteFile(files, BatchFile(sv[p].epoch, b),
                           JSONstringify(BatchPayload(b)))
  /\ sv' = [sv EXCEPT ![p].i = @ + 1]
  /\ UNCHANGED <<hgc, dirs, verifyOut, runs, edit, call>>

\* await fs.promises.writeFile(superRoot.json, JSON.stringify(superPayload))
WriteSuperRoot(p) ==
  /\ sv[p].pc = "write"
  /\ sv[p].i > Len(sv[p].result.batches)
  /\ files' = WriteFile(files, SuperRootFile(sv[p].epoch),
                        JSONstringify(SuperPayload(sv[p].result, sv[p].epoch)))
  /\ sv' = [sv EXCEPT ![p].pc = "read"]
  /\ UNCHANGED <<hgc, dirs, verifyOut, runs, edit, call>>

\* merged = JSON.parse(await readFile(mapPath)), {} when the file is missing
ReadMap(p) ==
  /\ sv[p].pc = "read"
  /\ sv' = [sv EXCEPT ![p].pc = "merge",
                      ![p].merged = IF MapFile \in DOMAIN files
                                    THEN JSONparse(files[MapFile]) ELSE Obj(<<>>)]
  /\ UNCHANGED <<hgc, files, dirs, verifyOut, runs, edit, call>>

\* the merge that writes what it has merged so far before it throws
MergeAndWrite_PartialWrite(p) ==
  /\ sv[p].pc = "merge"
  /\ LET m == MergeMap(sv[p].merged, sv[p].result.map, sv[p].epoch)
         sortedMap == SortMap(m.merged)
     IN /\ files' = WriteFile(files, MapFile, JSONstringify(sortedMap))
        /\ IF m.error # ""
           THEN sv' = [sv EXCEPT ![p].pc = "failed", ![p].error = m.error]
           ELSE sv' = [sv EXCEPT ![p].pc = "done", ![p].merged = m.merged,
                                 ![p].logHash = sha256HexCanonical(sortedMap)]
  /\ UNCHANGED <<hgc, dirs, verifyOut, runs, edit, call>>

\* the merge loop, then await writeFile(mapPath, JSON.stringify(sortedMap))
MergeAndWrite(p) ==
  /\ sv[p].pc = "merge"
  /\ LET m == MergeMap(sv[p].merged, sv[p].result.map, sv[p].epoch)
         sortedMap == SortMap(m.merged)
     IN IF m.error # ""
        THEN /\ sv' = [sv EXCEPT ![p].pc = "failed", ![p].error = m.error]
             /\ files' = files
        ELSE /\ files' = WriteFile(files, MapFile, JSONstringify(sortedMap))
             /\ sv' = [sv EXCEPT ![p].pc = "done", ![p].merged = m.merged,
                                 ![p].logHash = sha256HexCanonical(sortedMap)]
  /\ UNCHANGED <<hgc, dirs, verifyOut, runs, edit, call>>

\* const ok = results.every(r => r.ok); process.exit(ok ? 0 : 1)
ExitCode(results) == IF \A r \in results : r.ok THEN 0 ELSE 1

\* node verify.mjs --dir <epoch directory>, while no saveResults is running
VerifyDir ==
  /\ \A p \in Procs : sv[p].pc \in {"idle", "done", "failed"}
  /\ \E e \in Epochs :
       /\ EpochDir(e) \in dirs
       /\ verifyOut' = [dir |-> EpochDir(e), at |-> runs,
                        results |-> verifyDir(files, EpochDir(e)),
                        exit |-> ExitCode(verifyDir(files, EpochDir(e)))]
  /\ UNCHANGED <<hgc, sv, files, dirs, runs, edit, call>>

SaveStep(p) ==
  \/ Start(p)
  \/ Mkdir(p)
  \/ WriteBatch(p)
  \/ WriteSuperRoot(p)
  \/ ReadMap(p)
  \/ MergeAndWrite(p)

\* one saveResults call after the other
Next == SaveStep(1) \/ VerifyDir

Spec == Init /\ [][Next]_vars

\* two epoch runs on one base directory at a time
NextConc == \E p \in Procs : SaveStep(p)

SpecConc == Init /\ [][NextConc]_vars

(***************************************************************************)
(* A written file edited in place, between a verify run that succeeded and *)
(* the next one: one field of one file of the verified directory gets      *)
(* another JSON value.                                                     *)
(***************************************************************************)
Reverse(s) == [i \in DOMAIN s |-> s[Len(s) + 1 - i]]

\* the fields verifyFile and verifySuperRootFile read
TamperFields(file) ==
  IF file[2] = "superRoot.json" THEN {"superRoot", "batchIds", "batchRoots"}
  ELSE {"data", "merkleRoot", "hash"}

\* the values an edit puts in the place of old
TamperValues(old) ==
  { v \in CASE old.t = "object" ->
               { Obj(<<>>), Obj(Reverse(old.kv)),
                 IF old.kv = <<>> THEN old
                 ELSE Obj(<<<<old.kv[1][1], Arr(<<>>)>>>> \o Tail(old.kv)) }
            [] old.t = "array" -> { Arr(<<>>), Arr(Reverse(old.a)), Null }
            [] OTHER -> { Str("0x"), Str("0x" \o keccak256("abc")), Null } :
      v # old }

Tamper ==
  /\ edit = NoEdit
  /\ \A p \in Procs : sv[p].pc \in {"idle", "done", "failed"}
  /\ verifyOut # NoVerify
  /\ verifyOut.results # {}
  /\ verifyOut.exit = 0
  /\ \E file \in Readdir(files, verifyOut.dir) :
       \E field \in TamperFields(file) :
         LET json == JSONparse(files[file])
         IN \E v \in TamperValues(Get(json, field)) :
              /\ files' = WriteFile(files, file, JSONstringify(Set(json, field, v)))
              /\ edit' = [file |-> file, field |-> field,
                          old |-> Get(json, field), new |-> v]
  /\ verifyOut' = NoVerify
  /\ UNCHANGED <<hgc, sv, dirs, runs, call>>

\* epoch runs, verify runs and one edit; nothing is written after the edit
NextTamper ==
  \/ (edit = NoEdit /\ runs < MaxRunsBeforeEdit /\ Start(1))
  \/ (\/ Mkdir(1) \/ WriteBatch(1) \/ WriteSuperRoot(1) \/ ReadMap(1) \/ MergeAndWrite(1))
  \/ Tamper
  \/ VerifyDir

SpecTamper == Init /\ [][NextTamper]_vars

(***************************************************************************)
(* loadHgcConfig as a call: the command line and the environment are       *)
(* drawn, the function is applied.                                         *)
(***************************************************************************)
ConfigKeys ==
  {"baseRes", "minRes", "maxLeavesPerBatch", "maxSamplesPerBatch",
   "hysteresisNear", "hysteresisFar"}

\* the environment variable of a key
EnvName(key) ==
  CASE key = "baseRes" -> "HGC_BASE_RES"
    [] key = "minRes" -> "HGC_MIN_RES"
    [] key = "maxLeavesPerBatch" -> "HGC_MAX_LEAVES_PER_BATCH"
    [] key = "maxSamplesPerBatch" -> "HGC_MAX_SAMPLES_PER_BATCH"
    [] key = "hysteresisNear" -> "HGC_HYSTERESIS_NEAR"
    [] key = "hysteresisFar" -> "HGC_HYSTERESIS_FAR"
    [] OTHER -> "HGC_VOLUME"

\* the texts given on the command line and in the environment
CliText(key) ==
  CASE key \in {"hysteresisNear", "hysteresisFar"} -> "1.2"
    [] key = "volume" -> "5000"
    [] OTHER -> "5"

EnvText(key) ==
  CASE key \in {"hysteresisNear", "hysteresisFar"} -> "0.8"
    [] key = "volume" -> "100"
    [] OTHER -> "6"

\* process.argv with the flags of K, process.env with the variables of K
ArgvOf(K) == [i \in 1..Cardinality(K) |->
                LET k == SeqOfSet(K)[i] IN <<k, CliText(k)>>]

EnvOf(K) == Obj([i \in 1..Cardinality(K) |->
                   LET k == SeqOfSet(K)[i] IN <<EnvName(k), Str(EnvText(k))>>])

InitCfg ==
  /\ \E cli \in SUBSET (ConfigKeys \cup {"volume"}), env \in SUBSET (ConfigKeys \cup {"volume"}) :
       call = [fn |-> "loadHgcConfig", phase |-> "input",
               argv |-> ArgvOf(cli), env |-> EnvOf(env), ret |-> Undef]
  /\ hgc = [phase |-> "none", samples |-> <<>>, epoch |-> 0, params |-> NoParams,
            onInvalid |-> "throw", result |-> NoResult]
  /\ sv = [p \in Procs |-> IdleSaver]
  /\ files = EmptyFS
  /\ dirs = {}
  /\ verifyOut = NoVerify
  /\ runs = 0
  /\ edit = NoEdit

LoadHgcConfig ==
  /\ call.fn = "loadHgcConfig"
  /\ call.phase = "input"
  /\ call' = [call EXCEPT !.phase = "done", !.ret = loadHgcConfig(call.argv, call.env)]
  /\ UNCHANGED <<hgc, sv, files, dirs, verifyOut, runs, edit>>

SpecCfg == InitCfg /\ [][LoadHgcConfig]_vars

(***************************************************************************)
(* canonical and sha256HexCanonical as calls on two values.                *)
(***************************************************************************)
\* the objects of at most n members with keys of keys and values of vals,
\* in every insertion order
ObjectsOver(keys, vals, n) ==
  { Obj(kv) : kv \in UNION { { s \in [1..m -> keys \X vals] :
                                  \A i, j \in 1..m : i # j => s[i][1] # s[j][1] } :
                              m \in 0..n } }

CanonLeaves == { Num(1), Str("1"), Null }

CanonArrays == { Arr(<<Num(1), Str("1")>>), Arr(<<Str("1"), Num(1)>>) }

CanonInner == ObjectsOver({"data", "epoch", "hash"}, {Num(1), Null}, MaxMembers)

CanonOuter ==
  ObjectsOver({"data", "epoch"},
              { Num(1), Arr(<<Num(1), Str("1")>>),
                Obj(<< <<"epoch", Num(1)>>, <<"hash", Null>> >>),
                Obj(<< <<"hash", Null>>, <<"epoch", Num(1)>> >>) }, 2)

CanonValues == CanonLeaves \cup CanonArrays \cup CanonInner \cup CanonOuter

InitCanon ==
  /\ \E v1 \in CanonValues, v2 \in CanonValues :
       call = [fn |-> "canonical", phase |-> "input", v1 |-> v1, v2 |-> v2,
               text1 |-> "", text2 |-> "", hash1 |-> "", hash2 |-> ""]
  /\ hgc = [phase |-> "none", samples |-> <<>>, epoch |-> 0, params |-> NoParams,
            onInvalid |-> "throw", result |-> NoResult]
  /\ sv = [p \in Procs |-> IdleSaver]
  /\ files = EmptyFS
  /\ dirs = {}
  /\ verifyOut = NoVerify
  /\ runs = 0
  /\ edit = NoEdit

Canonical ==
  /\ call.fn = "canonical"
  /\ call.phase = "input"
  /\ call' = [call EXCEPT !.phase = "done",
                          !.text1 = canonical(call.v1),
                          !.text2 = canonical(call.v2),
                          !.hash1 = sha256HexCanonical(call.v1),
                          !.hash2 = sha256HexCanonical(call.v2)]
  /\ UNCHANGED <<hgc, sv, files, dirs, verifyOut, runs, edit>>

SpecCanon == InitCanon /\ [][Canonical]_vars

(***************************************************************************)
(* merkleRootAndIndex as a call on two data objects.                       *)
(***************************************************************************)
\* payloads: two numbers whose digits join with a cell id to the same text,
\* and one entry list in both field orders
MerklePayloads ==
  { Num(1), Num(21),
    Arr(<< Obj(<< <<"epoch", Num(1)>>, <<"hash", Null>> >>) >>),
    Arr(<< Obj(<< <<"hash", Null>>, <<"epoch", Num(1)>> >>) >>) }

MerkleData == ObjectsOver({"1", "12", "2"}, MerklePayloads, MaxCells)

InitMerkle ==
  /\ \E d1 \in MerkleData, d2 \in MerkleData :
       call = [fn |-> "merkleRootAndIndex", phase |-> "input", d1 |-> d1, d2 |-> d2,
               ret1 |-> [root |-> "", leavesIndex |-> Obj(<<>>)],
               ret2 |-> [root |-> "", leavesIndex |-> Obj(<<>>)]]
  /\ hgc = [phase |-> "none", samples |-> <<>>, epoch |-> 0, params |-> NoParams,
            onInvalid |-> "throw", result |-> NoResult]
  /\ sv = [p \in Procs |-> IdleSaver]
  /\ files = EmptyFS
  /\ dirs = {}
  /\ verifyOut = NoVerify
  /\ runs = 0
  /\ edit = NoEdit

MerkleRootAndIndex ==
  /\ call.fn = "merkleRootAndIndex"
  /\ call.phase = "input"
  /\ call' = [call EXCEPT !.phase = "done",
                          !.ret1 = merkleRootAndIndex(call.d1),
                          !.ret2 = merkleRootAndIndex(call.d2)]
  /\ UNCHANGED <<hgc, sv, files, dirs, verifyOut, runs, edit>>

SpecMerkle == InitMerkle /\ [][MerkleRootAndIndex]_vars

(***************************************************************************)
(* chunkStable as a call: child groups, their volumes and the two budgets  *)
(* are drawn, the function is applied.                                     *)
(***************************************************************************)
\* child groups as compressTopDown builds them: the sorted leaves of a parent
ChunkGroups == { << "82a00" >>, << "82a00", "82a01" >>, << "82a10" >> }

InitChunk ==
  /\ \E n \in 0..MaxGroups :
       \E gs \in [1..n -> ChunkGroups], vs \in [1..n -> 0..2],
          maxLeaves \in 1..3, maxVolume \in 1..3 :
         call = [fn |-> "chunkStable", phase |-> "input", childrenSorted |-> gs,
                 volumes |-> vs, maxLeaves |-> maxLeaves, maxVolume |-> maxVolume,
                 ret |-> <<>>]
  /\ hgc = [phase |-> "none", samples |-> <<>>, epoch |-> 0, params |-> NoParams,
            onInvalid |-> "throw", result |-> NoResult]
  /\ sv = [p \in Procs |-> IdleSaver]
  /\ files = EmptyFS
  /\ dirs = {}
  /\ verifyOut = NoVerify
  /\ runs = 0
  /\ edit = NoEdit

ChunkStable ==
  /\ call.fn = "chunkStable"
  /\ call.phase = "input"
  /\ call' = [call EXCEPT !.phase = "done",
                          !.ret = chunkStable(call.childrenSorted, call.volumes,
                                              call.maxLeaves, call.maxVolume)]
  /\ UNCHANGED <<hgc, sv, files, dirs, verifyOut, runs, edit>>

SpecChunk == InitChunk /\ [][ChunkStable]_vars

(***************************************************************************)
(* The epoch run (run-epoch.mjs) and the pipeline of the end-to-end test,  *)
(* with their sinks uploadFolder (ipfs.js) and registerGeoBatch (chain.js).*)
(* run-epoch calls a sink only when it is configured; the test calls both  *)
(* unconditionally.  A sink that is not configured runs its mock branch.   *)
(* The working directory is the package root.  A sink call ends well or    *)
(* throws; a cid is kept as what it is the hash of.                        *)
(***************************************************************************)
Drivers == {"run-epoch", "pipeline-test"}

MockChainFile == <<DataDir, "mock-chain.json">>
MockDir(t) == DataDir \o "/ipfs-mock/" \o ToString(t)

\* hashFolder(folderPath): sha256Hex of the sorted 'rel:sha256Hex(bytes)' lines
hashFolder(fs, dir) ==
  [t |-> "string", sha256 |-> { <<f[2], fs[f]>> : f \in Readdir(fs, dir) }]

\* fs.promises.cp(folderPath, mockDir, { recursive: true }), the files of
\* copied done
CopyInto(fs, copied, mockDir) ==
  [q \in DOMAIN fs \cup { <<mockDir, f[2]>> : f \in copied } |->
     IF q \in DOMAIN fs THEN fs[q]
     ELSE fs[CHOOSE f \in copied : f[2] = q[2]]]

\* the mock branch that keeps one record only
registerGeoBatchMock_Overwrite(fs, epoch, geoBatchId, merkleRoot, cid) ==
  WriteFile(fs, MockChainFile,
            JSONstringify(Arr(<< Obj(<< <<"epoch", Num(epoch)>>,
                                        <<"geoBatchId", geoBatchId>>,
                                        <<"merkleRoot", merkleRoot>>,
                                        <<"cid", cid>> >>) >>)))

\* registerGeoBatch, chain not enabled: data.push({ epoch, geoBatchId,
\* merkleRoot, cid }) on the records of mock-chain.json, [] without the file
registerGeoBatchMock(fs, epoch, geoBatchId, merkleRoot, cid) ==
  LET data == IF MockChainFile \in DOMAIN fs THEN JSONparse(fs[MockChainFile]).a
              ELSE <<>>
  IN WriteFile(fs, MockChainFile,
               JSONstringify(Arr(Append(data,
                 Obj(<< <<"epoch", Num(epoch)>>,
                        <<"geoBatchId", geoBatchId>>,
                        <<"merkleRoot", merkleRoot>>,
                        <<"cid", cid>> >>)))))

InitEpoch ==
  /\ \E driver \in Drivers, ipfs \in BOOLEAN, chain \in BOOLEAN :
       call = [fn |-> "runEpoch", driver |-> driver, ipfsEnabled |-> ipfs,
               chainEnabled |-> chain, phase |-> "save", cid |-> Undef, i |-> 1,
               onchain |-> <<>>]
  /\ hgc = [phase |-> "none", samples |-> <<>>, epoch |-> 0, params |-> NoParams,
            onInvalid |-> "throw", result |-> NoResult]
  /\ sv = [p \in Procs |-> IdleSaver]
  /\ files = EmptyFS
  /\ dirs = {}
  /\ verifyOut = NoVerify
  /\ runs = 0
  /\ edit = NoEdit

\* const result = runHGC(...); const superRoot = await saveResults(...)
RunAndSave ==
  /\ call.phase = "save"
  /\ \/ runs = 0 /\ Start(1)
     \/ Mkdir(1)
     \/ WriteBatch(1)
     \/ WriteSuperRoot(1)
     \/ ReadMap(1)
     \/ MergeAndWrite(1)

\* run-epoch: if (isIpfsEnabled()) is false, cid stays undefined
SkipUpload ==
  /\ call.phase = "save"
  /\ sv[1].pc = "done"
  /\ call.driver = "run-epoch"
  /\ ~call.ipfsEnabled
  /\ call' = [call EXCEPT !.phase = "register"]
  /\ UNCHANGED <<hgc, sv, files, dirs, verifyOut, runs, edit>>

\* cid = await uploadFolder(epochDir): the mock branch copies the folder to
\* data/ipfs-mock/<Date.now()> and returns hashFolder(folderPath); the other
\* posts the files to the pinning service and returns its IpfsHash
UploadFolder ==
  /\ call.phase = "save"
  /\ sv[1].pc = "done"
  /\ call.driver = "pipeline-test" \/ call.ipfsEnabled
  /\ \E ok \in BOOLEAN :
       IF call.ipfsEnabled
       THEN /\ call' = IF ok THEN [call EXCEPT !.phase = "register",
                                               !.cid = Str("QmEpochDir")]
                       ELSE [call EXCEPT !.phase = "failed"]
            /\ UNCHANGED <<files, dirs>>
       ELSE \E t \in {1, 2}, copied \in SUBSET Readdir(files, EpochDir(sv[1].epoch)) :
              /\ ok => copied = Readdir(files, EpochDir(sv[1].epoch))
              /\ files' = CopyInto(files, copied, MockDir(t))
              /\ dirs' = dirs \cup {DataDir \o "/ipfs-mock", MockDir(t)}
              /\ call' = IF ok
                         THEN [call EXCEPT !.phase = "register",
                                           !.cid = hashFolder(files, EpochDir(sv[1].epoch))]
                         ELSE [call EXCEPT !.phase = "failed"]
  /\ UNCHANGED <<hgc, sv, verifyOut, runs, edit>>

\* run-epoch: if (isChainEnabled()) is false, nothing is registered
SkipRegister ==
  /\ call.phase = "register"
  /\ call.driver = "run-epoch"
  /\ ~call.chainEnabled
  /\ call' = [call EXCEPT !.phase = "returned"]
  /\ UNCHANGED <<hgc, sv, files, dirs, verifyOut, runs, edit>>

\* await registerGeoBatch(epoch, b.geoBatchId, b.merkleRoot, cid) for the
\* next batch: the mock record, or registerGeoBatchBulk([id], [root], [cid])
RegisterGeoBatch ==
  /\ call.phase = "register"
  /\ call.driver = "pipeline-test" \/ call.chainEnabled
  /\ call.i <= Len(sv[1].result.batches)
  /\ LET b == sv[1].result.batches[call.i]
     IN \E ok \in BOOLEAN :
          IF ~ok
          THEN /\ call' = [call EXCEPT !.phase = "failed"]
               /\ files' = files
          ELSE IF call.chainEnabled
          THEN /\ call' = [call EXCEPT !.i = @ + 1,
                             !.onchain = Append(@, [geoBatchId |-> Get(b, "geoBatchId"),
                                                    merkleRoot |-> Get(b, "merkleRoot"),
                                                    cid |-> call.cid])]
               /\ files' = files
          ELSE /\ call' = [call EXCEPT !.i = @ + 1]
               /\ files' = registerGeoBatchMock(files, sv[1].epoch, Get(b, "geoBatchId"),
                                                Get(b, "merkleRoot"), call.cid)
  /\ UNCHANGED <<hgc, sv, dirs, verifyOut, runs, edit>>

\* return superRoot.superRoot
EpochReturn ==
  /\ call.phase = "register"
  /\ call.driver = "pipeline-test" \/ call.chainEnabled
  /\ call.i > Len(sv[1].result.batches)
  /\ call' = [call EXCEPT !.phase = "returned"]
  /\ UNCHANGED <<hgc, sv, files, dirs, verifyOut, runs, edit>>

NextEpoch ==
  \/ RunAndSave
  \/ SkipUpload
  \/ UploadFolder
  \/ SkipRegister
  \/ RegisterGeoBatch
  \/ EpochReturn

SpecEpoch == InitEpoch /\ [][NextEpoch]_vars

(***************************************************************************)
(* The contracts NodeDIDRegistry and GeoRewardManager.  A call is one      *)
(* transaction: it runs to its end or reverts, and a revert leaves the     *)
(* storage as it was.  call.did and call.rm are the storage of the two     *)
(* contracts, call.last the outcome of the last transaction.  An EIP-712   *)
(* signature is kept as whether it recovers to the node; the roles are     *)
(* those the constructors grant.                                           *)
(***************************************************************************)
ZeroAddress == "0x0"
Nodes == {"n1", "n2"}
Manager == "admin"
Oracle == "oracle"
Accounts == {Manager, "a", "b"}

\* ISensorResolver.sensorTypeMaxResolution of the deployed resolver
sensorTypeMaxResolution(sensorType) == IF sensorType = 1 THEN 8 ELSE 0

\* the arguments of one registration
RegisterArgs ==
  [node : Nodes \cup {ZeroAddress}, nodeType : {0, 1}, controller : {ZeroAddress, "a", "b"},
   uri : {"u1"}, sigRecoversNode : BOOLEAN]

\* _registerNode without the check of controllerOf[node]
registerNodeInternal_NoCheck(did, e) ==
  IF e.node = ZeroAddress THEN [err |-> "InvalidNodeAddress", did |-> did]
  ELSE IF e.controller = ZeroAddress THEN [err |-> "InvalidController", did |-> did]
  ELSE IF ~e.sigRecoversNode THEN [err |-> "InvalidSignature", did |-> did]
  ELSE IF sensorTypeMaxResolution(e.nodeType) = 0
  THEN [err |-> "NodeTypeNotAllowed", did |-> did]
  ELSE [err |-> "",
        did |-> [controllerOf |-> [did.controllerOf EXCEPT ![e.node] = e.controller],
                 nodeData |-> [did.nodeData EXCEPT ![e.node] =
                                 [nodeType |-> e.nodeType, active |-> TRUE,
                                  metadataURI |-> e.uri]],
                 nonces |-> [did.nonces EXCEPT ![e.node] = @ + 1]]]

\* _registerNode(node, nodeType, controller, uri, sig)
registerNodeInternal(did, e) ==
  IF e.node = ZeroAddress THEN [err |-> "InvalidNodeAddress", did |-> did]
  ELSE IF e.controller = ZeroAddress THEN [err |-> "InvalidController", did |-> did]
  ELSE IF did.controllerOf[e.node] # ZeroAddress
  THEN [err |-> "NodeAlreadyRegistered", did |-> did]
  ELSE IF ~e.sigRecoversNode THEN [err |-> "InvalidSignature", did |-> did]
  ELSE IF sensorTypeMaxResolution(e.nodeType) = 0
  THEN [err |-> "NodeTypeNotAllowed", did |-> did]
  ELSE [err |-> "",
        did |-> [controllerOf |-> [did.controllerOf EXCEPT ![e.node] = e.controller],
                 nodeData |-> [did.nodeData EXCEPT ![e.node] =
                                 [nodeType |-> e.nodeType, active |-> TRUE,
                                  metadataURI |-> e.uri]],
                 nonces |-> [did.nonces EXCEPT ![e.node] = @ + 1]]]

RECURSIVE RegisterLoop(_, _, _)
\* the loop of registerMultipleNodes from entry i on
RegisterLoop(did, entries, i) ==
  IF i > Len(entries) THEN [err |-> "", did |-> did]
  ELSE LET r == registerNodeInternal(did, entries[i])
       IN IF r.err # "" THEN r ELSE RegisterLoop(r.did, entries, i + 1)

\* the storage after a transaction that ended with r: a revert restores it
Committed(did, r) == IF r.err = "" THEN r.did ELSE did

NoTx == [op |-> "", err |-> "", nodes |-> {}]

\* the storage of a NodeDIDRegistry just deployed
NoNodes ==
  [controllerOf |-> [n \in Nodes \cup {ZeroAddress} |-> ZeroAddress],
   nodeData |-> [n \in Nodes \cup {ZeroAddress} |->
                   [nodeType |-> 0, active |-> FALSE, metadataURI |-> ""]],
   nonces |-> [n \in Nodes \cup {ZeroAddress} |-> 0]]

InitChain ==
  /\ call = [fn |-> "chain", did |-> NoNodes, last |-> NoTx]
  /\ hgc = [phase |-> "none", samples |-> <<>>, epoch |-> 0, params |-> NoParams,
            onInvalid |-> "throw", result |-> NoResult]
  /\ sv = [p \in Procs |-> IdleSaver]
  /\ files = EmptyFS
  /\ dirs = {}
  /\ verifyOut = NoVerify
  /\ runs = 0
  /\ edit = NoEdit

\* registerNode(node, nodeType, controller, metadataURI, signature)
RegisterNode ==
  /\ call.fn = "chain"
  /\ \E sender \in Accounts, e \in RegisterArgs :
       LET r == IF sender # Manager
                THEN [err |-> "AccessControlUnauthorizedAccount", did |-> call.did]
                ELSE registerNodeInternal(call.did, e)
       IN call' = [call EXCEPT !.did = Committed(call.did, r),
                               !.last = [op |-> "registerNode", err |-> r.err,
                                         nodes |-> {e.node}]]
  /\ UNCHANGED <<hgc, sv, files, dirs, verifyOut, runs, edit>>

\* the entries drawn for a batch: any node, one controller, the allowed type
BatchArgs == { e \in RegisterArgs : e.nodeType = 1 /\ e.controller = "a" }

\* registerMultipleNodes(nodeAddresses, nodeTypes, controllers, metadataURIs,
\* signatures), the five arrays of equal length or not
RegisterMultipleNodes ==
  /\ call.fn = "chain"
  /\ \E sender \in {Manager, "a"}, n \in 0..MaxBatchNodes :
       \E entries \in [1..n -> BatchArgs], sameLength \in BOOLEAN :
         LET r == IF sender # Manager
                  THEN [err |-> "AccessControlUnauthorizedAccount", did |-> call.did]
                  ELSE IF ~sameLength
                  THEN [err |-> "ArrayLengthMismatch", did |-> call.did]
                  ELSE RegisterLoop(call.did, entries, 1)
         IN call' = [call EXCEPT !.did = Committed(call.did, r),
                                 !.last = [op |-> "registerMultipleNodes", err |-> r.err,
                                           nodes |-> { entries[i].node : i \in 1..n }]]
  /\ UNCHANGED <<hgc, sv, files, dirs, verifyOut, runs, edit>>

\* changeController(node, newController)
ChangeController ==
  /\ call.fn = "chain"
  /\ \E sender \in Accounts, node \in Nodes \cup {ZeroAddress},
        newController \in {ZeroAddress, "a", "b"} :
       LET err == IF call.did.controllerOf[node] = ZeroAddress THEN "NodeNotRegistered"
                  ELSE IF sender # call.did.controllerOf[node] /\ sender # Manager
                  THEN "Unauthorized"
                  ELSE IF newController = ZeroAddress THEN "InvalidController"
                  ELSE ""
       IN call' = [call EXCEPT !.did.controllerOf[node] =
                                  IF err = "" THEN newController ELSE @,
                               !.last = [op |-> "changeController", err |-> err,
                                         nodes |-> {node}]]
  /\ UNCHANGED <<hgc, sv, files, dirs, verifyOut, runs, edit>>

\* updateMetadataURI(node, newURI)
UpdateMetadataURI ==
  /\ call.fn = "chain"
  /\ \E sender \in Accounts, node \in Nodes \cup {ZeroAddress}, newURI \in {"u1", "u2"} :
       LET err == IF call.did.controllerOf[node] = ZeroAddress THEN "NodeNotRegistered"
                  ELSE IF sender # call.did.controllerOf[node] /\ sender # Manager
                  THEN "Unauthorized"
                  ELSE ""
       IN call' = [call EXCEPT !.did.nodeData[node].metadataURI =
                                  IF err = "" THEN newURI ELSE @,
                               !.last = [op |-> "updateMetadataURI", err |-> err,
                                         nodes |-> {node}]]
  /\ UNCHANGED <<hgc, sv, files, dirs, verifyOut, runs, edit>>

\* setNodeActive(node, active)
SetNodeActive ==
  /\ call.fn = "chain"
  /\ \E sender \in Accounts, node \in Nodes \cup {ZeroAddress}, active \in BOOLEAN :
       LET err == IF sender # Manager THEN "AccessControlUnauthorizedAccount"
                  ELSE IF call.did.controllerOf[node] = ZeroAddress
                  THEN "NodeNotRegistered"
                  ELSE ""
       IN call' = [call EXCEPT !.did.nodeData[node].active =
                                  IF err = "" THEN active ELSE @,
                               !.last = [op |-> "setNodeActive", err |-> err,
                                         nodes |-> {node}]]
  /\ UNCHANGED <<hgc, sv, files, dirs, verifyOut, runs, edit>>

NextDid ==
  \/ RegisterNode
  \/ RegisterMultipleNodes
  \/ ChangeController
  \/ UpdateMetadataURI
  \/ SetNodeActive

SpecDid == InitChain /\ [][NextDid]_vars

(***************************************************************************)
(* GeoRewardManager over the registry above.  A Merkle root is kept as the *)
(* name of its tree, a proof as the root and the leaf it leads from: it    *)
(* verifies for that root and that leaf only.                              *)
(***************************************************************************)
Weeks == {1}
ZeroRoot == "0x00"

\* the leaves (node, amount) of the trees the oracle publishes
LeavesOf(root) ==
  CASE root = "r1" -> { <<"n1", 1>>, <<"n2", 1>> }
    [] root = "r2" -> { <<"n1", 2>> }
    [] OTHER -> {}

Proofs == UNION { { [root |-> r, leaf |-> l] : l \in LeavesOf(r) } : r \in {"r1", "r2"} }

\* MerkleProof.verifyCalldata(proof, root, leaf)
verifyCalldata(proof, root, leaf) ==
  proof.root = root /\ proof.leaf = leaf /\ leaf \in LeavesOf(root)

NoEvent == [controller |-> "", node |-> "", epochWeek |-> 0, amount |-> 0]

\* claim without the check of claimed[epochWeek][node]
claimTx_NoClaimedCheck(rm, did, sender, epochWeek, node, amount, proof) ==
  LET root == rm.cycleRoot[epochWeek]
      fail(e) == [err |-> e, rm |-> rm, event |-> NoEvent]
  IN IF root = ZeroRoot THEN fail("CycleNotPublished")
     ELSE IF ~did.nodeData[node].active THEN fail("NodeInactive")
     ELSE IF did.controllerOf[node] # sender THEN fail("NotController")
     ELSE IF ~verifyCalldata(proof, root, <<node, amount>>) THEN fail("InvalidProof")
     ELSE IF rm.balance < amount THEN fail("ERC20InsufficientBalance")
     ELSE [err |-> "",
           rm |-> [rm EXCEPT !.claimed[<<epochWeek, node>>] = TRUE,
                             !.balance = @ - amount,
                             !.rewardClaimed[<<epochWeek, node>>] = @ + 1],
           event |-> [controller |-> sender, node |-> node, epochWeek |-> epochWeek,
                      amount |-> amount]]

\* claim(epochWeek, node, amount, proof) sent by sender
claimTx(rm, did, sender, epochWeek, node, amount, proof) ==
  LET root == rm.cycleRoot[epochWeek]
      fail(e) == [err |-> e, rm |-> rm, event |-> NoEvent]
  IN IF root = ZeroRoot THEN fail("CycleNotPublished")
     ELSE IF rm.claimed[<<epochWeek, node>>] THEN fail("AlreadyClaimed")
     ELSE IF ~did.nodeData[node].active THEN fail("NodeInactive")
     ELSE IF did.controllerOf[node] # sender THEN fail("NotController")
     ELSE IF ~verifyCalldata(proof, root, <<node, amount>>) THEN fail("InvalidProof")
     ELSE IF rm.balance < amount THEN fail("ERC20InsufficientBalance")
     ELSE [err |-> "",
           rm |-> [rm EXCEPT !.claimed[<<epochWeek, node>>] = TRUE,
                             !.balance = @ - amount,
                             !.rewardClaimed[<<epochWeek, node>>] = @ + 1],
           event |-> [controller |-> sender, node |-> node, epochWeek |-> epochWeek,
                      amount |-> amount]]

InitReward ==
  /\ call = [fn |-> "chain", did |-> NoNodes,
             rm |-> [cycleRoot |-> [w \in Weeks |-> ZeroRoot],
                     claimed |-> [k \in Weeks \X Nodes |-> FALSE],
                     balance |-> 0,
                     rewardClaimed |-> [k \in Weeks \X Nodes |-> 0]],
             last |-> NoTx]
  /\ hgc = [phase |-> "none", samples |-> <<>>, epoch |-> 0, params |-> NoParams,
            onInvalid |-> "throw", result |-> NoResult]
  /\ sv = [p \in Procs |-> IdleSaver]
  /\ files = EmptyFS
  /\ dirs = {}
  /\ verifyOut = NoVerify
  /\ runs = 0
  /\ edit = NoEdit

\* publishCycle(epochWeek, merkleRoot, totalToMint); cgt.mint reverts when the
\* contract has not been made a minter
PublishCycle ==
  /\ call.fn = "chain"
  /\ \E sender \in {Oracle, "a"}, epochWeek \in Weeks, merkleRoot \in {ZeroRoot, "r1", "r2"},
        totalToMint \in 0..MaxMint, mintReverts \in BOOLEAN :
       LET err == IF sender # Oracle THEN "AccessControlUnauthorizedAccount"
                  ELSE IF call.rm.cycleRoot[epochWeek] # ZeroRoot THEN "CycleAlreadyExists"
                  ELSE IF merkleRoot = ZeroRoot \/ totalToMint = 0 THEN "ZeroRootOrAmount"
                  ELSE IF mintReverts THEN "AccessControlUnauthorizedAccount"
                  ELSE ""
       IN call' = [call EXCEPT !.rm.cycleRoot[epochWeek] = IF err = "" THEN merkleRoot ELSE @,
                               !.rm.balance = IF err = "" THEN @ + totalToMint ELSE @,
                               !.last = [op |-> "publishCycle", err |-> err, nodes |-> {},
                                         event |-> NoEvent]]
  /\ UNCHANGED <<hgc, sv, files, dirs, verifyOut, runs, edit>>

\* claim(epochWeek, node, amount, proof)
Claim ==
  /\ call.fn = "chain"
  /\ \E sender \in {"a", "b"}, epochWeek \in Weeks, node \in Nodes, amount \in 1..MaxMint,
        proof \in Proofs :
       LET r == claimTx(call.rm, call.did, sender, epochWeek, node, amount, proof)
       IN call' = [call EXCEPT !.rm = r.rm,
                               !.last = [op |-> "claim", err |-> r.err, nodes |-> {node},
                                         event |-> r.event]]
  /\ UNCHANGED <<hgc, sv, files, dirs, verifyOut, runs, edit>>

NextReward ==
  \/ RegisterNode
  \/ ChangeController
  \/ SetNodeActive
  \/ PublishCycle
  \/ Claim

SpecReward == InitReward /\ [][NextReward]_vars

(***************************************************************************)
(* Properties of runHGC (checked under SpecHGC).                           *)
(***************************************************************************)
\* the call returned
Returned == hgc.phase \in {"ran", "rooted"} /\ hgc.result.thrown = ""

\* every sample of the list is valid: nothing was thrown in throw mode
AllValid == hgc.onInvalid = "throw" /\ hgc.result.thrown = ""

PermutationsOf(s) == { [i \in DOMAIN s |-> s[f[i]]] : f \in Permutations(DOMAIN s) }

CellsOf(b) == { Get(b, "compressedFrom").a[i].s : i \in DOMAIN Get(b, "compressedFrom").a }

\* the base cells that hold at least one entry after normalization
RetainedCells ==
  LET st == Ingest([tmp |-> Obj(<<>>), invalid |-> <<>>, thrown |-> ""],
                   hgc.samples, 1, hgc.params.baseRes, hgc.onInvalid)
  IN { st.tmp.kv[i][1] : i \in { j \in DOMAIN st.tmp.kv : st.tmp.kv[j][2].kv # <<>> } }

WithinBudget(b, params) ==
  /\ 10 * IntOf(Get(b, "countLeaves")) <= params.maxLeavesPerBatch * params.hysteresisFar10
  /\ 10 * IntOf(Get(b, "countSamples")) <= params.maxSamplesPerBatch * params.hysteresisFar10

\* C1: order independence: on every permutation of a list of valid samples
\* runHGC returns what it returned on the list itself (batches, map,
\* superRoot), also with equal timestamps and with equal dedup keys
C1_OrderIndependence ==
  (hgc.phase = "ran" /\ AllValid) =>
    \A perm \in PermutationsOf(hgc.samples) :
      runHGC(perm, hgc.epoch, hgc.params, hgc.onInvalid) = hgc.result

\* C2: coverage and disjointness: the compressedFrom lists are pairwise
\* disjoint, their union is the set of base cells that hold an entry, and
\* map sends each such cell to the one batch that lists it
C2_CoverageDisjoint ==
  (hgc.phase = "ran" /\ AllValid) =>
    LET bs == hgc.result.batches
    IN /\ \A i, j \in DOMAIN bs : i # j => CellsOf(bs[i]) \cap CellsOf(bs[j]) = {}
       /\ UNION { CellsOf(bs[i]) : i \in DOMAIN bs } = RetainedCells
       /\ \A c \in RetainedCells :
            \E i \in DOMAIN bs : /\ c \in CellsOf(bs[i])
                                 /\ Get(hgc.result.map, c) = Get(bs[i], "geoBatchId")

\* C3: budget compliance: a batch below baseRes is within both budgets
\* times hysteresisFar; a batch over either budget is at baseRes
C3_BudgetCompliance ==
  Returned =>
    \A i \in DOMAIN hgc.result.batches :
      LET b == hgc.result.batches[i]
      IN /\ IntOf(Get(b, "resBatch")) < hgc.params.baseRes => WithinBudget(b, hgc.params)
         /\ ~WithinBudget(b, hgc.params) => IntOf(Get(b, "resBatch")) = hgc.params.baseRes

\* a run that returns a batch below baseRes and a batch over budget
C3_Witness ==
  /\ Returned
  /\ \E i, j \in DOMAIN hgc.result.batches :
       /\ IntOf(Get(hgc.result.batches[i], "resBatch")) < hgc.params.baseRes
       /\ ~WithinBudget(hgc.result.batches[j], hgc.params)

\* C4: batch parent invariant: every cell of compressedFrom is at resBase and
\* its parent at resBatch is geoBatchId, also in a chunk of an over-budget
\* parent
C4_BatchParent ==
  Returned =>
    \A i \in DOMAIN hgc.result.batches :
      LET b == hgc.result.batches[i]
      IN \A c \in CellsOf(b) :
           /\ getResolution(c) = IntOf(Get(b, "resBase"))
           /\ cellToParent(c, IntOf(Get(b, "resBatch"))) = Get(b, "geoBatchId").s

\* C9: hash integrity: hash is sha256Hex(canonical(batch without hash)) and
\* merkleRoot is the root of data, before and after addMerkleRoots
C9_HashIntegrity ==
  Returned =>
    \A i \in DOMAIN hgc.result.batches :
      LET b == hgc.result.batches[i]
      IN /\ Get(b, "hash") = Str(sha256Hex(canonical(Delete(b, "hash"))))
         /\ Get(b, "merkleRoot") = Str(merkleRootAndIndex(Get(b, "data")).root)

\* addMerkleRoots was applied to a batch of several cells
C9_Witness ==
  /\ hgc.phase = "rooted"
  /\ \E i \in DOMAIN hgc.result.batches :
       Cardinality(CellsOf(hgc.result.batches[i])) > 1

(***************************************************************************)
(* Properties of saveResults and the verifier.                             *)
(***************************************************************************)
AllCellIds == { CellTable[i].id : i \in DOMAIN CellTable }

\* map[e][c] in the map file of fs, undefined when there is none
MapEntry(fs, e, c) ==
  IF MapFile \notin DOMAIN fs THEN Undef
  ELSE LET m == Get(JSONparse(fs[MapFile]), ToString(e))
       IN IF m.t = "object" THEN Get(m, c) ELSE Undef

\* the cells call p maps to another batch id than the file had at the call
Conflicts(p) ==
  { c \in Range(Keys(sv[p].result.map)) :
      LET old == MapEntry(sv[p].before.files, sv[p].epoch, c)
      IN Truthy(old) /\ old # Get(sv[p].result.map, c) }

\* every entry of call p is in the map file
EntriesIn(fs, p) ==
  \A c \in Range(Keys(sv[p].result.map)) :
    MapEntry(fs, sv[p].epoch, c) = Get(sv[p].result.map, c)

\* C5: map merge conflict: a call whose map moves a recorded cell of its
\* epoch never succeeds, fails with the error naming the cell, the existing
\* and the new id, and leaves cellToBatchMap.json as it was
C5_MapMergeConflict ==
  (sv[1].pc # "idle" /\ Conflicts(1) # {}) =>
    /\ sv[1].pc # "done"
    /\ MapFile \in DOMAIN files
    /\ files[MapFile] = sv[1].before.files[MapFile]
    /\ sv[1].pc = "failed" =>
         \E c \in Conflicts(1) :
           sv[1].error =
             ConflictText(c, MapEntry(sv[1].before.files, sv[1].epoch, c).s,
                          Get(sv[1].result.map, c).s)

\* a call failed on a conflict after merging a cell that did not conflict
C5_Witness ==
  /\ sv[1].pc = "failed"
  /\ Conflicts(1) # {}
  /\ \E c \in Range(Keys(sv[1].result.map)) :
       ~Truthy(MapEntry(sv[1].before.files, sv[1].epoch, c))

\* C6: no persisted file on error: after a call that failed, the files are
\* the files there were when it started
C6_NoFileOnError ==
  sv[1].pc = "failed" => files = sv[1].before.files

\* C7: append-only map: an entry map[e][c] of cellToBatchMap.json is in
\* every later content of the file, over any sequence of calls
C7_AppendOnly ==
  [][\A e \in Epochs, c \in AllCellIds :
       Truthy(MapEntry(files, e, c)) => MapEntry(files', e, c) = MapEntry(files, e, c)]_vars

\* a call succeeded on a map file that had entries and changed it
C7_Witness ==
  /\ sv[1].pc = "done"
  /\ MapFile \in DOMAIN sv[1].before.files
  /\ files[MapFile] # sv[1].before.files[MapFile]

\* call p finds in the base directory what a call with its own result and
\* epoch leaves there: the same superRoot.json and every entry of its map
RerunOf(p) ==
  /\ sv[p].pc \in {"done", "failed"}
  /\ SuperRootFile(sv[p].epoch) \in DOMAIN sv[p].before.files
  /\ sv[p].before.files[SuperRootFile(sv[p].epoch)] =
       JSONstringify(SuperPayload(sv[p].result, sv[p].epoch))
  /\ EntriesIn(sv[p].before.files, p)

\* C13: idempotent re-run: a second saveResults call with the same result
\* and epoch on the same base directory raises no conflict and leaves
\* cellToBatchMap.json as it was: the same content in the same key order,
\* the same canonical hash
C13_IdempotentRerun ==
  RerunOf(1) =>
    /\ sv[1].pc = "done"
    /\ sv[1].error = ""
    /\ files[MapFile] = sv[1].before.files[MapFile]
    /\ Keys(files[MapFile]) = Keys(sv[1].before.files[MapFile])
    /\ sv[1].logHash = sha256HexCanonical(JSONparse(sv[1].before.files[MapFile]))

\* the re-run of a two-cell result
C13_Witness ==
  /\ RerunOf(1)
  /\ Len(sv[1].result.map.kv) = 2
  /\ sv[1].pc = "done"

\* C8: concurrent merge detection: two calls that interleave do not both
\* report success with an entry of one of them missing from the file
C8_ConcurrentMerge ==
  (\A p \in Procs : sv[p].pc = "done") => \A p \in Procs : EntriesIn(files, p)

\* C10: the verifier accepts the pipeline's output: after one accepted run
\* has been persisted in a fresh directory, verifyDir reports ok for every
\* file of the epoch directory
C10_VerifierAccepts ==
  (verifyOut # NoVerify /\ runs = 1 /\ sv[1].pc = "done") =>
    \A r \in verifyOut.results : r.ok

(***************************************************************************)
(* Properties of validation and deduplication (checked under SpecHGC).     *)
(***************************************************************************)
\* a reading fails validation: its geoCellId is not a cell or its pm25 is
\* outside [PM25_MIN, PM25_MAX]
FailsValidation(r) == validateSample(r) # <<>>

\* the inner readings of a sample
InnerOf(s) == IF Get(s, "samples").t = "array" THEN Get(s, "samples").a ELSE <<>>

\* the readings of a sample that fail validation: the sample itself, or
\* else the failing readings of its inner array
InvalidReadingsOf(s) ==
  IF FailsValidation(s) THEN <<s>>
  ELSE SelectSeq(InnerOf(s), LAMBDA r : FailsValidation(r))

InvalidReadings(samples) == FlatSeq([i \in DOMAIN samples |-> InvalidReadingsOf(samples[i])])

\* the input without its failing readings
Cleaned(samples) ==
  LET top == SelectSeq(samples, LAMBDA s : ~FailsValidation(s))
  IN [i \in DOMAIN top |->
        IF Get(top[i], "samples").t = "array"
        THEN Set(top[i], "samples",
                 Arr(SelectSeq(InnerOf(top[i]), LAMBDA r : ~FailsValidation(r))))
        ELSE top[i]]

\* the entries of the batches, and their inner readings
BatchEntries(batches) ==
  UNION { UNION { Range(Get(batches[i], "data").kv[j][2].a) :
                    j \in DOMAIN Get(batches[i], "data").kv } : i \in DOMAIN batches }

BatchReadings(batches) ==
  BatchEntries(batches) \cup UNION { Range(InnerOf(e)) : e \in BatchEntries(batches) }

\* C14: invalid-sample modes: when the input holds readings that fail
\* validation, at top level or in an inner array, runHGC in 'throw' mode
\* throws and returns nothing; in 'mark' mode no batch holds a failing
\* reading and invalidSamples has one record, with its error list, for each
\* of them; in 'discard' mode no batch holds one and invalidSamples is
\* empty; in both the valid readings are kept as a run without the failing
\* ones keeps them
C14_InvalidModes ==
  hgc.phase = "ran" =>
    LET bad == InvalidReadings(hgc.samples)
        res == hgc.result
    IN /\ (hgc.onInvalid = "throw" /\ bad # <<>>) =>
            (res.thrown # "" /\ res.batches = <<>>)
       /\ hgc.onInvalid # "throw" =>
            /\ res.thrown = ""
            /\ \A r \in BatchReadings(res.batches) : ~FailsValidation(r)
            /\ res.batches =
                 runHGC(Cleaned(hgc.samples), hgc.epoch, hgc.params, "throw").batches
       /\ hgc.onInvalid = "mark" =>
            /\ Len(res.invalidSamples) = Len(bad)
            /\ \A k \in DOMAIN res.invalidSamples :
                 Get(res.invalidSamples[k], "errors").t = "array"
       /\ hgc.onInvalid = "discard" => res.invalidSamples = <<>>

\* the base cell of a sample
NormId(s) ==
  LET raw == Get(s, "geoCellId").s
  IN IF getResolution(raw) # hgc.params.baseRes
     THEN cellToParent(raw, hgc.params.baseRes) ELSE raw

\* the dedup key: '{issuer}-{timestamp}' when the sample has both fields,
\* else the hash of the canonical sample with its normalized cell id
KeyOf(s) ==
  IF Get(s, "issuer").t # "undefined" /\ Get(s, "timestamp").t # "undefined"
  THEN Template(Get(s, "issuer")) \o "-" \o Template(Get(s, "timestamp"))
  ELSE sha256HexCanonical(Set(s, "geoCellId", Str(NormId(s))))

\* the readings of a sample that pass validation in its base cell
ValidPart(s) ==
  IF Get(s, "samples").t = "array"
  THEN SelectSeq(InnerOf(s),
                 LAMBDA r : validateSample(Set(r, "geoCellId", Str(NormId(s)))) = <<>>)
  ELSE <<s>>

\* a sample that is valid: it passes validation and so does one reading
ValidSample(s) == ~FailsValidation(s) /\ ValidPart(s) # <<>>

\* the entry a valid sample becomes
EntryOf(s) ==
  IF Get(s, "samples").t = "array"
  THEN Set(Set(s, "geoCellId", Str(NormId(s))), "samples", Arr(ValidPart(s)))
  ELSE Set(s, "geoCellId", Str(NormId(s)))

\* the positions of the input that hold the first valid sample of their
\* key in cell c
FirstValid(c) ==
  { i \in DOMAIN hgc.samples :
      /\ ValidSample(hgc.samples[i])
      /\ NormId(hgc.samples[i]) = c
      /\ \A j \in 1..(i - 1) :
           ~(/\ ValidSample(hgc.samples[j])
             /\ NormId(hgc.samples[j]) = c
             /\ KeyOf(hgc.samples[j]) = KeyOf(hgc.samples[i])) }

\* C15: dedup, first seen wins: the entries a batch holds for a base cell
\* are, one for each dedup key, the first valid sample of that key in input
\* order; no two of them have the same issuer and timestamp
C15_DedupFirstSeen ==
  Returned =>
    \A b \in Range(hgc.result.batches) :
      \A j \in DOMAIN Get(b, "data").kv :
        LET c == Get(b, "data").kv[j][1]
            arr == Get(b, "data").kv[j][2].a
        IN /\ Len(arr) = Cardinality(FirstValid(c))
           /\ Range(arr) = { EntryOf(hgc.samples[i]) : i \in FirstValid(c) }
           /\ \A x, y \in DOMAIN arr :
                (/\ x # y
                 /\ Get(arr[x], "issuer").t # "undefined"
                 /\ Get(arr[x], "timestamp").t # "undefined") =>
                  <<Get(arr[x], "issuer"), Get(arr[x], "timestamp")>>
                    # <<Get(arr[y], "issuer"), Get(arr[y], "timestamp")>>

\* a cell that keeps two entries of three samples: the third has the key of
\* the first and another payload
C15_Witness ==
  /\ Returned
  /\ Len(hgc.samples) = 3
  /\ KeyOf(hgc.samples[1]) = KeyOf(hgc.samples[3])
  /\ hgc.samples[1] # hgc.samples[3]
  /\ NormId(hgc.samples[1]) = NormId(hgc.samples[3])
  /\ \E b \in Range(hgc.result.batches) :
       \E j \in DOMAIN Get(b, "data").kv :
         /\ Len(Get(b, "data").kv[j][2].a) = 2
         /\ EntryOf(hgc.samples[1]) \in Range(Get(b, "data").kv[j][2].a)

\* the timestamps of the entries of a batch
TimestampsOf(b) ==
  { Get(e, "timestamp").q10 : e \in { x \in BatchEntries(<<b>>) : Get(x, "timestamp").t = "number" } }

\* C16: batch timestamp bounds: tsMin and tsMax of a batch are the least
\* and the greatest timestamp over all its entries, and are null only when
\* no entry has one; a cell list that starts with an entry without
\* timestamp does not hide the timestamps of the other entries
C16_TimestampBounds ==
  Returned =>
    \A b \in Range(hgc.result.batches) :
      LET ts == TimestampsOf(b)
      IN IF ts = {}
         THEN Get(b, "tsMin") = Null /\ Get(b, "tsMax") = Null
         ELSE /\ Get(b, "tsMin") = Dec(CHOOSE t \in ts : \A u \in ts : t <= u)
              /\ Get(b, "tsMax") = Dec(CHOOSE t \in ts : \A u \in ts : t >= u)

\* the readings an entry stands for: the length of its inner array, or 1
ReadingsIn(e) == IF Get(e, "samples").t = "array" THEN Len(Get(e, "samples").a) ELSE 1

\* C20: batch ordering and counts: compressedFrom is strictly ascending,
\* the keys of data are compressedFrom in that order, countLeaves is the
\* length of compressedFrom, and countSamples is the sum over the entries
\* of the length of the inner array (1 without one)
C20_OrderingAndCounts ==
  Returned =>
    \A b \in Range(hgc.result.batches) :
      LET cf == Get(b, "compressedFrom").a
          data == Get(b, "data")
      IN /\ \A i, j \in DOMAIN cf : i < j => StrRank(cf[i].s) < StrRank(cf[j].s)
         /\ Keys(data) = [i \in DOMAIN cf |-> cf[i].s]
         /\ Get(b, "countLeaves") = Num(Len(cf))
         /\ Get(b, "countSamples") =
              Num(SumSeq([i \in DOMAIN data.kv |->
                           SumSeq([j \in DOMAIN data.kv[i][2].a |->
                                     ReadingsIn(data.kv[i][2].a[j])])]))

\* a batch of two cells and two entries that stand for three readings
C20_Witness ==
  /\ Returned
  /\ \E b \in Range(hgc.result.batches) :
       /\ Get(b, "countLeaves") = Num(2)
       /\ Get(b, "countSamples") = Num(3)
       /\ Cardinality(BatchEntries(<<b>>)) = 2

(***************************************************************************)
(* Properties of computeEpochSuperRoot (checked under SpecHGC on the       *)
(* batch lists runHGC builds).                                             *)
(***************************************************************************)
\* C12: super-root stability: computeEpochSuperRoot returns the same
\* superRoot, batchIds and batchRoots on every permutation of a list of
\* batches; batchIds is ascending by geoBatchId, and batchRoots[i] is the
\* merkleRoot of the batch whose id is batchIds[i]
C12_SuperRootStable ==
  Returned =>
    LET bs == hgc.result.batches
        sr == computeEpochSuperRoot(bs)
    IN /\ \A perm \in PermutationsOf(bs) : computeEpochSuperRoot(perm) = sr
       /\ \A i, j \in DOMAIN sr.batchIds :
            i < j => StrRank(sr.batchIds[i].s) <= StrRank(sr.batchIds[j].s)
       /\ Len(sr.batchRoots) = Len(sr.batchIds)
       /\ \A i \in DOMAIN sr.batchIds :
            \E k \in DOMAIN bs : /\ Get(bs[k], "geoBatchId") = sr.batchIds[i]
                                 /\ Get(bs[k], "merkleRoot") = sr.batchRoots[i]
       /\ hgc.result.superRoot = sr.superRoot

\* three batches with three different roots, listed out of id order
C12_Witness ==
  /\ hgc.phase = "rooted"
  /\ Len(hgc.result.batches) = 3
  /\ \E perm \in PermutationsOf(hgc.result.batches) :
       /\ perm # hgc.result.batches
       /\ computeEpochSuperRoot_InputOrder(perm)
            # computeEpochSuperRoot_InputOrder(hgc.result.batches)
       /\ computeEpochSuperRoot(perm).superRoot = hgc.result.superRoot

(***************************************************************************)
(* Properties of loadHgcConfig (checked under SpecCfg).                    *)
(***************************************************************************)
\* the default of a key: the tier of the volume, 8 and 0 for the resolutions
TierDefault(key, volume) ==
  CASE key = "baseRes" -> Cent(100 * 8)
    [] key = "minRes" -> Cent(0)
    [] OTHER -> Get(paramsForVolume(volume), key)

\* the number a text denotes for a key
ParsedFor(key, text) ==
  IF key \in {"hysteresisNear", "hysteresisFar"} THEN parseFloat(text) ELSE parseInt(text)

\* C17: configuration precedence: each of the six parameters has the value
\* of its command-line flag when the flag is given, else the value of its
\* HGC_* environment variable when that is set, else the default of the
\* tier of the volume
C17_ConfigPrecedence ==
  (call.fn = "loadHgcConfig" /\ call.phase = "done") =>
    \A key \in ConfigKeys :
      Get(call.ret, key) =
        IF \E i \in DOMAIN call.argv : call.argv[i][1] = key
        THEN ParsedFor(key, CliText(key))
        ELSE IF Has(call.env, EnvName(key))
        THEN ParsedFor(key, EnvText(key))
        ELSE TierDefault(key, Get(call.ret, "volume"))

\* the constraints on a configuration: 0 <= minRes <= baseRes <= 15 (the
\* finest resolution of the grid), 0 < hysteresisNear <= 1 <= hysteresisFar
WellFormedConfig(cfg) ==
  /\ 0 <= Get(cfg, "minRes").q100
  /\ Get(cfg, "minRes").q100 <= Get(cfg, "baseRes").q100
  /\ Get(cfg, "baseRes").q100 <= 100 * 15
  /\ 0 < Get(cfg, "hysteresisNear").q100
  /\ Get(cfg, "hysteresisNear").q100 <= 100
  /\ 100 <= Get(cfg, "hysteresisFar").q100

\* C21: malformed parameters are rejected: loadHgcConfig does not return a
\* configuration that violates 0 <= minRes <= baseRes <= MAX_RES or
\* 0 < hysteresisNear <= 1 <= hysteresisFar; it fails with a configuration
\* error instead
C21_MalformedRejected ==
  (call.fn = "loadHgcConfig" /\ call.phase = "done") =>
    (call.ret.t = "object" => WellFormedConfig(call.ret))

(***************************************************************************)
(* Properties of the verifier (checked under SpecTamper).                  *)
(***************************************************************************)
RECURSIVE StructEq(_, _)
\* the same JSON value: the same members whatever their order, the same
\* elements in order, the same primitive
StructEq(v1, v2) ==
  IF v1.t # v2.t THEN FALSE
  ELSE IF v1.t = "object"
  THEN /\ Len(v1.kv) = Len(v2.kv)
       /\ Range(Keys(v1)) = Range(Keys(v2))
       /\ \A k \in Range(Keys(v1)) : StructEq(Get(v1, k), Get(v2, k))
  ELSE IF v1.t = "array"
  THEN /\ Len(v1.a) = Len(v2.a)
       /\ \A i \in DOMAIN v1.a : StructEq(v1.a[i], v2.a[i])
  ELSE v1 = v2

\* the verify run that followed the edit, in the directory of the edited file
VerifiedAfterEdit ==
  edit # NoEdit /\ verifyOut # NoVerify /\ verifyOut.dir = edit.file[1]

\* C11: the verifier rejects tampering: in a directory that verified, after
\* data, merkleRoot or hash of a batch file, or superRoot, batchIds or
\* batchRoots of superRoot.json, got a different value, the result of the
\* edited file is not ok; and the verify run exits with 0 iff every result
\* is ok
C11_TamperRejected ==
  /\ (VerifiedAfterEdit /\ ~StructEq(edit.old, edit.new)) =>
       \E r \in verifyOut.results : r.file = edit.file /\ ~r.ok
  /\ verifyOut # NoVerify =>
       (verifyOut.exit = 0 <=> \A r \in verifyOut.results : r.ok)

C11_Witness ==
  /\ VerifiedAfterEdit
  /\ edit.field = "data"
  /\ ~StructEq(edit.old, edit.new)
  /\ verifyOut.exit = 1
  /\ \E r \in verifyOut.results : r.ok

(***************************************************************************)
(* Properties of the canonical encoder (checked under SpecCanon).          *)
(***************************************************************************)
\* C18: canonical encoding law: two structurally equal values (the same
\* members in any insertion order at every depth, arrays equal element by
\* element in order, equal numbers) have the same canonical text, and so
\* the same sha256HexCanonical
C18_CanonicalLaw ==
  (call.fn = "canonical" /\ call.phase = "done" /\ StructEq(call.v1, call.v2)) =>
    /\ call.text1 = call.text2
    /\ call.hash1 = call.hash2

\* two objects that differ in the insertion order of a nested object only
C18_Witness ==
  /\ call.fn = "canonical"
  /\ call.phase = "done"
  /\ StructEq(call.v1, call.v2)
  /\ call.v1 # call.v2
  /\ Keys(call.v1) = <<"epoch", "data">>
  /\ Keys(call.v2) = <<"data", "epoch">>
  /\ Get(call.v1, "data").t = "object"
  /\ Get(call.v1, "data") # Get(call.v2, "data")
  /\ call.hash1 = call.hash2

(***************************************************************************)
(* Properties of merkleRootAndIndex (checked under SpecMerkle).            *)
(***************************************************************************)
\* C19: the Merkle root depends on content only: two data objects with the
\* same cells and entries, in any insertion order of the cells and of the
\* fields of the entries, have the same root and leavesIndex;
\* leavesIndex[k] is the position of k among the sorted keys; the root of
\* a one-cell object is the leaf hash of that cell; and two one-cell
\* objects with different (cellId, payload) have different leaves, also
\* when id and payload text join to the same text
C19_MerkleContentOnly ==
  (call.fn = "merkleRootAndIndex" /\ call.phase = "done") =>
    LET ks == Range(Keys(call.d1))
    IN /\ StructEq(call.d1, call.d2) => call.ret1 = call.ret2
       /\ Range(Keys(call.ret1.leavesIndex)) = ks
       /\ \A k \in ks :
            Get(call.ret1.leavesIndex, k) =
              Num(Cardinality({ x \in ks : StrRank(x) < StrRank(k) }))
       /\ Len(call.d1.kv) = 1 =>
            call.ret1.root =
              "0x" \o keccak256(call.d1.kv[1][1] \o ":" \o canonical(call.d1.kv[1][2]))
       /\ (Len(call.d1.kv) = 1 /\ Len(call.d2.kv) = 1 /\ ~StructEq(call.d1, call.d2)) =>
            call.ret1.root # call.ret2.root

\* cell '1' with payload 21 and cell '12' with payload 1: the same text
\* when joined without a separator
C19_Witness ==
  /\ call.fn = "merkleRootAndIndex"
  /\ call.phase = "done"
  /\ call.d1 = Obj(<< <<"1", Num(21)>> >>)
  /\ call.d2 = Obj(<< <<"12", Num(1)>> >>)
  /\ call.ret1.root # call.ret2.root

(***************************************************************************)
(* Dedup of distinct readings (checked under SpecHGC).                     *)
(***************************************************************************)
HasIssuerAndTimestamp(s) ==
  Get(s, "issuer").t # "undefined" /\ Get(s, "timestamp").t # "undefined"

\* C30: dedup never merges distinct readings: two valid samples of one base
\* cell that both carry issuer and timestamp and differ in the pair
\* (issuer, timestamp) are both retained, as separate entries
C30_DistinctReadingsKept ==
  Returned =>
    \A i, j \in DOMAIN hgc.samples :
      LET a == hgc.samples[i]
          b == hgc.samples[j]
      IN (/\ ValidSample(a) /\ ValidSample(b)
          /\ NormId(a) = NormId(b)
          /\ HasIssuerAndTimestamp(a) /\ HasIssuerAndTimestamp(b)
          /\ <<Get(a, "issuer"), Get(a, "timestamp")>>
               # <<Get(b, "issuer"), Get(b, "timestamp")>>) =>
           {EntryOf(a), EntryOf(b)} \subseteq BatchEntries(hgc.result.batches)

(***************************************************************************)
(* Properties of the compressor (checked under SpecHGC).                   *)
(***************************************************************************)
\* what compressTopDown is given: the cells of entriesByCell and their counts
InputCounts ==
  SampleCountByCell(EntriesByCell(
    Ingest([tmp |-> Obj(<<>>), invalid |-> <<>>, thrown |-> ""],
           hgc.samples, 1, hgc.params.baseRes, hgc.onInvalid).tmp))

InputLeaves == DOMAIN InputCounts

\* all input leaves under parent p of resolution r
LeavesUnder(p, r) == { c \in InputLeaves : cellToParent(c, r) = p }

ParentsAt(r) == { cellToParent(c, r) : c \in InputLeaves }

VolumeOfSet(C) == SumSeq([i \in 1..Cardinality(C) |-> InputCounts[SeqOfSet(C)[i]]])

\* the budgets scaled by hysteresisFar
FitsScaled(C) ==
  /\ 10 * Cardinality(C) <= hgc.params.maxLeavesPerBatch * hgc.params.hysteresisFar10
  /\ 10 * VolumeOfSet(C) <= hgc.params.maxSamplesPerBatch * hgc.params.hysteresisFar10

FitsPlain(C) ==
  /\ Cardinality(C) <= hgc.params.maxLeavesPerBatch
  /\ VolumeOfSet(C) <= hgc.params.maxSamplesPerBatch

\* parent p of resolution r is processed: the descent reaches it, no
\* ancestor of it having passed the fit test
Processed(p, r) ==
  \A q \in hgc.params.minRes..(r - 1) :
    ~FitsScaled(LeavesUnder(cellToParent(p, q), q))

BatchesOf(p, r) ==
  { i \in DOMAIN hgc.result.batches :
      /\ Get(hgc.result.batches[i], "geoBatchId") = Str(p)
      /\ IntOf(Get(hgc.result.batches[i], "resBatch")) = r }

\* C24: fit test with far-hysteresis: when all input leaves under a parent
\* p of a resolution being grouped are within maxLeavesPerBatch * hysteresisFar
\* and maxSamplesPerBatch * hysteresisFar, exactly one batch has geoBatchId p
\* and that resBatch and it holds all of them, also over the plain budget;
\* leaves under one minRes parent that fit give one batch at minRes
C24_FitTest ==
  Returned =>
    /\ \A r \in hgc.params.minRes..(hgc.params.baseRes - 1) :
         \A p \in ParentsAt(r) :
           (Processed(p, r) /\ FitsScaled(LeavesUnder(p, r))) =>
             /\ Cardinality(BatchesOf(p, r)) = 1
             /\ \A i \in BatchesOf(p, r) :
                  CellsOf(hgc.result.batches[i]) = LeavesUnder(p, r)
    /\ (/\ InputLeaves # {}
        /\ Cardinality(ParentsAt(hgc.params.minRes)) = 1
        /\ FitsScaled(InputLeaves)) =>
         /\ Len(hgc.result.batches) = 1
         /\ IntOf(Get(hgc.result.batches[1], "resBatch")) = hgc.params.minRes
         /\ CellsOf(hgc.result.batches[1]) = InputLeaves

\* a run whose batch below baseRes is over a plain budget and within the
\* scaled ones
C24_Witness ==
  /\ Returned
  /\ \E r \in hgc.params.minRes..(hgc.params.baseRes - 1) :
       \E p \in ParentsAt(r) :
         /\ Processed(p, r)
         /\ FitsScaled(LeavesUnder(p, r))
         /\ ~FitsPlain(LeavesUnder(p, r))
         /\ BatchesOf(p, r) # {}

BatchIds == [i \in DOMAIN hgc.result.batches |-> Get(hgc.result.batches[i], "geoBatchId").s]

\* C27: unique batch ids per epoch: no two batches runHGC returns have the
\* same geoBatchId, so the files saveResults writes for them are as many as
\* the batches
C27_UniqueBatchIds ==
  Returned =>
    /\ \A i, j \in DOMAIN BatchIds : BatchIds[i] = BatchIds[j] => i = j
    /\ Cardinality({ BatchFile(hgc.epoch, hgc.result.batches[i]) :
                       i \in DOMAIN hgc.result.batches }) = Len(hgc.result.batches)

\* a run of valid samples whose batches are the chunks of one over-budget
\* parent
C27_Witness ==
  /\ Returned
  /\ AllValid
  /\ \E i, j \in DOMAIN hgc.result.batches :
       /\ i # j
       /\ IntOf(Get(hgc.result.batches[i], "resBatch")) = hgc.params.baseRes
       /\ IntOf(Get(hgc.result.batches[j], "resBatch")) = hgc.params.baseRes
       /\ cellToParent(BatchIds[i], hgc.params.baseRes - 1)
            = cellToParent(BatchIds[j], hgc.params.baseRes - 1)

\* C28: coarsest fit: a batch with resBatch r above minRes exists only
\* because all input leaves under its ancestor at r - 1 failed the fit test,
\* and no ancestor of a batch at a coarser resolution passes it
C28_CoarsestFit ==
  Returned =>
    \A i \in DOMAIN hgc.result.batches :
      LET r == IntOf(Get(hgc.result.batches[i], "resBatch"))
      IN \A q \in hgc.params.minRes..(r - 1) :
           ~FitsScaled(LeavesUnder(cellToParent(BatchIds[i], q), q))

\* a run with a batch of several leaves between minRes and baseRes
C28_Witness ==
  /\ Returned
  /\ \E i \in DOMAIN hgc.result.batches :
       /\ IntOf(Get(hgc.result.batches[i], "resBatch")) > hgc.params.minRes
       /\ IntOf(Get(hgc.result.batches[i], "resBatch")) < hgc.params.baseRes
       /\ Cardinality(CellsOf(hgc.result.batches[i])) > 1

(***************************************************************************)
(* Properties of repeated saveResults calls (checked under Spec).          *)
(***************************************************************************)
\* the files the call of p is to leave in its epoch directory
FilesOfRun(p) ==
  { BatchFile(sv[p].epoch, sv[p].result.batches[i]) : i \in DOMAIN sv[p].result.batches }
    \cup { SuperRootFile(sv[p].epoch) }

\* C29: the epoch directory reflects the latest run: after successful
\* saveResults calls for an epoch its directory holds the batch files of the
\* most recent call and superRoot.json, nothing of an earlier run, and
\* verifySuperRootFile accepts superRoot.json
C29_EpochDirLatest ==
  sv[1].pc = "done" =>
    /\ Readdir(files, EpochDir(sv[1].epoch)) = FilesOfRun(1)
    /\ verifySuperRootFile(files, SuperRootFile(sv[1].epoch))

(***************************************************************************)
(* Properties of chunkStable (checked under SpecChunk).                    *)
(***************************************************************************)
\* the number of groups in the chunks before chunk k
ChunkOffset(chunks, k) == SumSeq([j \in 1..(k - 1) |-> Len(chunks[j])])

\* the indices of the groups that begin a chunk
ChunkStarts(chunks) == { ChunkOffset(chunks, k) + 1 : k \in DOMAIN chunks }

\* leaves and samples of the groups a..b of the input
LeavesOfRun(a, b) == SumSeq([j \in 1..(b - a + 1) |-> Len(call.childrenSorted[a + j - 1])])
VolumeOfRun(a, b) == SumSeq([j \in 1..(b - a + 1) |-> call.volumes[a + j - 1]])

\* the first group of the chunk group i - 1 is in
LastStart(chunks, i) ==
  CHOOSE a \in ChunkStarts(chunks) :
    a < i /\ \A b \in ChunkStarts(chunks) : b < i => b <= a

\* C25: stable packing: the chunks of chunkStable concatenated in order are
\* the input sequence, no chunk is empty, a group after the first begins a
\* new chunk exactly when adding it to the running chunk would bring the
\* leaves over maxLeaves or the samples over maxVolume, and so a chunk of
\* two or more groups is within both plain budgets
C25_StablePacking ==
  (call.fn = "chunkStable" /\ call.phase = "done") =>
    LET chunks == call.ret
        n == Len(call.childrenSorted)
    IN /\ FlatSeq(chunks) = call.childrenSorted
       /\ \A k \in DOMAIN chunks : chunks[k] # <<>>
       /\ \A i \in 2..n :
            (i \in ChunkStarts(chunks)) <=>
              (\/ LeavesOfRun(LastStart(chunks, i), i) > call.maxLeaves
               \/ VolumeOfRun(LastStart(chunks, i), i) > call.maxVolume)
       /\ \A k \in DOMAIN chunks :
            Len(chunks[k]) >= 2 =>
              LET a == ChunkOffset(chunks, k) + 1
                  b == ChunkOffset(chunks, k) + Len(chunks[k])
              IN /\ LeavesOfRun(a, b) <= call.maxLeaves
                 /\ VolumeOfRun(a, b) <= call.maxVolume

\* three groups packed into a chunk of two and a chunk of one, the seal
\* made for the sample budget alone
C25_Witness ==
  /\ call.fn = "chunkStable"
  /\ call.phase = "done"
  /\ Len(call.childrenSorted) = 3
  /\ Len(call.ret) = 2
  /\ Len(call.ret[1]) = 2
  /\ LeavesOfRun(1, 3) <= call.maxLeaves
  /\ VolumeOfRun(1, 3) > call.maxVolume

(***************************************************************************)
(* Properties of the epoch run and its sinks (checked under SpecEpoch).    *)
(***************************************************************************)
\* what saveResults wrote for the run
EpochArtifacts == FilesOfRun(1) \cup {MapFile}

\* upload and registration start after saveResults has completed
SinksAfterSave ==
  (call.fn = "runEpoch" /\ call.phase # "save") => sv[1].pc = "done"

\* a step taken once saveResults has completed leaves its files as they are
ArtifactsKept ==
  (call.fn = "runEpoch" /\ sv[1].pc = "done") =>
    \A f \in EpochArtifacts :
      f \in DOMAIN files /\ f \in DOMAIN files' /\ files'[f] = files[f]

\* the registrations made: the records of mock-chain.json and the calls of
\* registerGeoBatchBulk, as <<geoBatchId, merkleRoot, cid>>
Registrations ==
  { <<call.onchain[k].geoBatchId, call.onchain[k].merkleRoot, call.onchain[k].cid>> :
      k \in DOMAIN call.onchain }
  \cup (IF MockChainFile \in DOMAIN files
        THEN { <<Get(r, "geoBatchId"), Get(r, "merkleRoot"), Get(r, "cid")>> :
                 r \in Range(files[MockChainFile].a) }
        ELSE {})

\* every batch of the run is registered, with the cid of the run
AllRegistered ==
  /\ \A b \in Range(sv[1].result.batches) :
       <<Get(b, "geoBatchId"), Get(b, "merkleRoot"), call.cid>> \in Registrations
  /\ \A r \in Registrations : r[3] = call.cid

MockMode == ~call.ipfsEnabled /\ ~call.chainEnabled

\* in mock mode every batch is registered with the cid uploadFolder returned
MockRegistersAll ==
  (call.fn = "runEpoch" /\ call.phase = "returned" /\ MockMode) =>
    /\ call.cid = hashFolder(files, EpochDir(sv[1].epoch))
    /\ AllRegistered

\* a run that registers (the chain is configured, or the sinks are called
\* unconditionally) registers every batch with its one cid, which is what
\* uploadFolder returned, or undefined when the upload was skipped; the
\* epoch run in mock mode uploads nothing and registers nothing
RegistersWhenCalled ==
  (call.fn = "runEpoch" /\ call.phase = "returned") =>
    /\ (call.driver = "pipeline-test" \/ call.chainEnabled) => AllRegistered
    /\ (call.driver = "pipeline-test" /\ MockMode) =>
         call.cid = hashFolder(files, EpochDir(sv[1].epoch))
    /\ (call.driver = "run-epoch" /\ ~call.ipfsEnabled) => call.cid = Undef
    /\ (call.driver = "run-epoch" /\ ~call.chainEnabled) => Registrations = {}

isRegistered(did, node) == did.controllerOf[node] # ZeroAddress

\* the transaction of this step is a registration that includes a node
\* registered before it
RegistersAgain ==
  /\ call'.last.op \in {"registerNode", "registerMultipleNodes"}
  /\ \E n \in call'.last.nodes : isRegistered(call.did, n)

\* C23: a node is registered at most once: once registerNode or
\* registerMultipleNodes has registered n, every later registration that
\* includes n reverts, the whole call without a change of storage (a
\* registerNode call for n at the check of controllerOf[n] or before it), and
\* isRegistered(n) stays true under changeController, updateMetadataURI and
\* setNodeActive: the controller is never set to the zero address
C23_RegisteredOnce ==
  [][ /\ RegistersAgain =>
           /\ call'.last.err # ""
           /\ call'.did = call.did
           /\ call'.last.op = "registerNode" =>
                call'.last.err \in {"AccessControlUnauthorizedAccount",
                                    "InvalidController", "NodeAlreadyRegistered"}
      /\ \A n \in Nodes : isRegistered(call.did, n) => isRegistered(call'.did, n)
    ]_vars

\* a batch of an unregistered node and a registered one has just reverted
\* with NodeAlreadyRegistered, the controller of the registered one having
\* been changed before
C23_Witness ==
  /\ call.fn = "chain"
  /\ call.last.op = "registerMultipleNodes"
  /\ call.last.err = "NodeAlreadyRegistered"
  /\ call.last.nodes = Nodes
  /\ \E n \in Nodes : ~isRegistered(call.did, n)
  /\ \E n \in Nodes : isRegistered(call.did, n) /\ call.did.nodeData[n].metadataURI = "u2"

(***************************************************************************)
(* Properties of GeoRewardManager (checked under SpecReward).              *)
(***************************************************************************)
\* the transaction of this step is a claim that went through
ClaimSucceeds == call'.last.op = "claim" /\ call'.last.err = ""

\* C26: each reward is paid at most once: under any sequence of
\* publishCycle and claim calls, with changes of controller and active flag
\* in between, at most one claim succeeds for a pair (epochWeek, node); a
\* claim succeeds only if the cycle is published, the node is active, the
\* caller is its controller and (node, amount) is proved against the cycle
\* root; any other claim reverts and transfers nothing; a published root is
\* never overwritten
C26_PaidOnce ==
  [][ /\ \A k \in Weeks \X Nodes : call'.rm.rewardClaimed[k] <= 1
      /\ ClaimSucceeds =>
           LET ev == call'.last.event
           IN /\ call.rm.cycleRoot[ev.epochWeek] # ZeroRoot
              /\ call.did.nodeData[ev.node].active
              /\ call.did.controllerOf[ev.node] = ev.controller
              /\ <<ev.node, ev.amount>> \in LeavesOf(call.rm.cycleRoot[ev.epochWeek])
              /\ call.rm.rewardClaimed[<<ev.epochWeek, ev.node>>] = 0
              /\ call'.rm.balance = call.rm.balance - ev.amount
      /\ (call'.last.op = "claim" /\ call'.last.err # "") => call'.rm = call.rm
      /\ call'.last.op # "claim" =>
           /\ call'.rm.rewardClaimed = call.rm.rewardClaimed
           /\ call'.rm.balance >= call.rm.balance
      /\ \A w \in Weeks :
           call.rm.cycleRoot[w] # ZeroRoot => call'.rm.cycleRoot[w] = call.rm.cycleRoot[w]
    ]_vars

\* the reward of n1 has been paid, the controller of n1 has changed since
\* and the node was set inactive and active again, and a further claim for
\* n1 has just reverted with AlreadyClaimed, tokens being left to pay it
C26_Witness ==
  /\ call.fn = "chain"
  /\ call.last.op = "claim"
  /\ call.last.err = "AlreadyClaimed"
  /\ call.last.nodes = {"n1"}
  /\ call.rm.rewardClaimed[<<1, "n1">>] = 1
  /\ call.rm.rewardClaimed[<<1, "n2">>] = 0
  /\ call.rm.balance >= 1
  /\ call.did.controllerOf["n1"] = "b"
  /\ call.did.nodeData["n1"].active

=============================================================================
